---- MODULE Spec2Model ----
(***************************************************************************)
(* A model of gh-dungeons: the BSP dungeon generator (game/dungeon.go),    *)
(* the entities (game/entity.go), the game session and its turn engine     *)
(* (game/state.go) and the part of the front end (game/game.go) that       *)
(* touches the session.                                                    *)
(*                                                                         *)
(* math/rand is a library: a seeded generator is modelled as a stream of   *)
(* raw draws fixed by the seed, and the model enumerates a small set of    *)
(* streams.  Float32() is kept in thousandths.                             *)
(***************************************************************************)
EXTENDS Integers, Sequences, FiniteSets, TLC

VARIABLES gs, op, frames, resizes, pressed

vars == <<gs, op, frames, resizes, pressed>>

(***************************************************************************)
(* Program constants                                                       *)
(***************************************************************************)
MinRoomSize == 6
MaxRoomSize == 15
BSPDepth == 4
VisionRadius == 7
MaxLevel == 5
MinWidth == 40
MinHeight == 20
UIRows == 3
MaxAttempts == 100
PotionHeal == 3
MarkerDamage == 2
NumSpread == 7

TileWall == 0
TileFloor == 1
TileDoor == 2

EntityPlayer == "player"
EntityBug == "bug"
EntityScopeCreep == "scope_creep"
EntityPotion == "potion"

Nil == [nil |-> TRUE]

\* Go evaluates an expression once and names its value.
\* With([x \in {e} |-> body]) is body, with x naming the value of e.
With(f) == CHOOSE r \in {h[CHOOSE v \in DOMAIN h : TRUE] : h \in {f}} : TRUE

Min2(a, b) == IF a < b THEN a ELSE b
Max2(a, b) == IF a > b THEN a ELSE b
abs(x) == IF x < 0 THEN -x ELSE x

(***************************************************************************)
(* The random stream.  math/rand is a library: what the session relies on  *)
(* is that a seed fixes the sequence of draws.  A stream is that sequence: *)
(* an affine sequence mod 1000 with stretches of it (patches, each a tape  *)
(* starting at an offset) given explicitly.  A generator is a stream and a *)
(* position in it.  Float32 is the draw in thousandths; Intn(n) is the     *)
(* draw mod n.                                                             *)
(***************************************************************************)
\* The draws that split a 40x20 grid into leaves too small for any room.
ZeroRoomTape ==
  <<0, 0, 0, 0, 0, 0, 0, 0, 0, 0, 11, 600, 0, 0, 0, 600, 1, 600, 0, 0, 0, 600, 1>>

\* In the single room (25,1,6,6) of an all-zero stream on a 40x20 grid: the
\* door just above the player's start.
DoorTape == <<2, 1>>

\* That door, and the trap just below the player's start.
TrapTape == <<2, 1, 0, 3, 4>>

\* In the same room: door and trap in corners, two bugs and three scope
\* creeps two steps below the player's start, three potions in a corner.
ArenaTape ==
  <<0, 0,  0, 5, 0,
    0, 1, 4, 600,  0, 4, 4, 0,  0, 4, 4, 0,  0, 4, 5, 0,  0, 1, 5, 600,
    0,  0, 5, 5,  0, 5, 5,  0, 5, 5>>

\* On an 80x40 grid: the single room (25,18,6,6) of an otherwise all-zero
\* stream, and the door two tiles above the player's start, on row 19.
LowRoomTape == <<17, 2, 0>>

\* 1: five single-room levels, each door next to the start.  2: the arena.
\* 3: a single-room level, then a level without rooms.  4: a first level
\* without rooms.  5 to 8: affine streams, dungeons of many rooms.  9: on an
\* 80x43 terminal, a single-room level with the door on row 19, then a
\* level without rooms.
Streams == <<
  [a |-> 0, b |-> 0,
   patches |-> <<[off |-> 26, tape |-> TrapTape], [off |-> 87, tape |-> DoorTape],
                 [off |-> 3426, tape |-> DoorTape], [off |-> 3806, tape |-> DoorTape],
                 [off |-> 8949, tape |-> DoorTape]>>],
  [a |-> 0, b |-> 0, patches |-> <<[off |-> 26, tape |-> ArenaTape]>>],
  [a |-> 0, b |-> 0, patches |-> <<[off |-> 2437, tape |-> ZeroRoomTape]>>],
  [a |-> 0, b |-> 0, patches |-> <<[off |-> 0, tape |-> ZeroRoomTape]>>],
  [a |-> 7, b |-> 3, patches |-> <<>>],
  [a |-> 613, b |-> 577, patches |-> <<>>],
  [a |-> 371, b |-> 29, patches |-> <<>>],
  [a |-> 89, b |-> 501, patches |-> <<>>],
  [a |-> 0, b |-> 0,
   patches |-> <<[off |-> 26, tape |-> LowRoomTape], [off |-> 2438, tape |-> ZeroRoomTape]>>]
>>

Raw(rng) ==
  LET s == Streams[rng.seed]
      hit == {i \in 1..Len(s.patches) :
                /\ rng.pos >= s.patches[i].off
                /\ rng.pos < s.patches[i].off + Len(s.patches[i].tape)}
  IN  IF hit # {}
      THEN LET p == s.patches[CHOOSE i \in hit : TRUE] IN p.tape[rng.pos - p.off + 1]
      ELSE (s.a * rng.pos + s.b) % 1000

NewSource(seed) == [seed |-> seed, pos |-> 0]
Advance(rng) == [rng EXCEPT !.pos = @ + 1]
\* n draws, each moving the generator on by one value.
AdvanceBy(rng, n) == [rng EXCEPT !.pos = @ + n]
Float32(rng) == Raw(rng)
Intn(rng, n) == Raw(rng) % n

(***************************************************************************)
(* Rooms and BSP nodes                                                     *)
(***************************************************************************)
Center(r) == <<r.X + r.W \div 2, r.Y + r.H \div 2>>

Contains(r, x, y) == x >= r.X /\ x < r.X + r.W /\ y >= r.Y /\ y < r.Y + r.H

NewBSPNode(x, y, w, h) ==
  [X |-> x, Y |-> y, W |-> w, H |-> h, Left |-> Nil, Right |-> Nil, Room |-> Nil]

\* The cut Split makes of a node: whether the node is cut at all, the two
\* children, and the generator after the draws.
\* float32(W)/float32(H) >= 1.25 on small integers is 4W >= 5H.
\* The cut taken anywhere below the far margin.
splitNodeAnywhere(n, rng) ==
  With([r1 \in {Advance(rng)},
        horizontal \in {IF 4 * n.W >= 5 * n.H THEN FALSE
                        ELSE IF 4 * n.H >= 5 * n.W THEN TRUE
                        ELSE Float32(rng) > 500} |->
  With([maxSize \in {IF horizontal THEN n.H - MinRoomSize ELSE n.W - MinRoomSize} |->
    IF maxSize <= MinRoomSize THEN [cut |-> FALSE, Left |-> Nil, Right |-> Nil, rng |-> r1]
    ELSE
      With([split \in {Intn(r1, maxSize - MinRoomSize)} |->
        [cut |-> TRUE,
         Left |-> IF horizontal THEN NewBSPNode(n.X, n.Y, n.W, split)
                  ELSE NewBSPNode(n.X, n.Y, split, n.H),
         Right |-> IF horizontal THEN NewBSPNode(n.X, n.Y + split, n.W, n.H - split)
                   ELSE NewBSPNode(n.X + split, n.Y, n.W - split, n.H),
         rng |-> Advance(r1)]
      ])
  ])])

splitNode(n, rng) ==
  With([r1 \in {Advance(rng)},
        horizontal \in {IF 4 * n.W >= 5 * n.H THEN FALSE
                        ELSE IF 4 * n.H >= 5 * n.W THEN TRUE
                        ELSE Float32(rng) > 500} |->
  With([maxSize \in {IF horizontal THEN n.H - MinRoomSize ELSE n.W - MinRoomSize} |->
    IF maxSize <= MinRoomSize THEN [cut |-> FALSE, Left |-> Nil, Right |-> Nil, rng |-> r1]
    ELSE
      With([split \in {Intn(r1, maxSize - MinRoomSize) + MinRoomSize} |->
        [cut |-> TRUE,
         Left |-> IF horizontal THEN NewBSPNode(n.X, n.Y, n.W, split)
                  ELSE NewBSPNode(n.X, n.Y, split, n.H),
         Right |-> IF horizontal THEN NewBSPNode(n.X, n.Y + split, n.W, n.H - split)
                   ELSE NewBSPNode(n.X + split, n.Y, n.W - split, n.H),
         rng |-> Advance(r1)]
      ])
  ])])

RECURSIVE Split(_, _, _)
Split(n, rng, depth) ==
  IF depth <= 0 THEN [node |-> n, rng |-> rng]
  ELSE
    With([c \in {splitNode(n, rng)} |->
      IF ~c.cut THEN [node |-> n, rng |-> c.rng]
      ELSE
        With([l \in {Split(c.Left, c.rng, depth - 1)} |->
        With([rt \in {Split(c.Right, l.rng, depth - 1)} |->
          [node |-> [n EXCEPT !.Left = l.node, !.Right = rt.node], rng |-> rt.rng]
        ])])
    ])

RECURSIVE CreateRooms(_, _)
CreateRooms(n, rng) ==
  IF n.Left # Nil /\ n.Right # Nil THEN
    With([l \in {CreateRooms(n.Left, rng)} |->
    With([rt \in {CreateRooms(n.Right, l.rng)} |->
      [node |-> [n EXCEPT !.Left = l.node, !.Right = rt.node], rng |-> rt.rng]
    ])])
  ELSE IF n.W < MinRoomSize + 2 \/ n.H < MinRoomSize + 2 THEN [node |-> n, rng |-> rng]
  ELSE
    With([maxW \in {Max2(Min2(MaxRoomSize, n.W - 2), MinRoomSize)},
          maxH \in {Max2(Min2(MaxRoomSize, n.H - 2), MinRoomSize)} |->
    With([roomW \in {IF maxW > MinRoomSize
                     THEN Intn(rng, maxW - MinRoomSize + 1) + MinRoomSize
                     ELSE MinRoomSize},
          r1 \in {IF maxW > MinRoomSize THEN Advance(rng) ELSE rng} |->
    With([roomH \in {IF maxH > MinRoomSize
                     THEN Intn(r1, maxH - MinRoomSize + 1) + MinRoomSize
                     ELSE MinRoomSize},
          r2 \in {IF maxH > MinRoomSize THEN Advance(r1) ELSE r1} |->
    With([roomX \in {IF n.W - roomW - 1 > 1 THEN n.X + Intn(r2, n.W - roomW - 1) + 1
                     ELSE n.X + 1},
          r3 \in {IF n.W - roomW - 1 > 1 THEN Advance(r2) ELSE r2} |->
    With([roomY \in {IF n.H - roomH - 1 > 1 THEN n.Y + Intn(r3, n.H - roomH - 1) + 1
                     ELSE n.Y + 1},
          r4 \in {IF n.H - roomH - 1 > 1 THEN Advance(r3) ELSE r3} |->
      [node |-> [n EXCEPT !.Room = [X |-> roomX, Y |-> roomY, W |-> roomW, H |-> roomH]],
       rng |-> r4]
    ])])])])])

RECURSIVE GetRooms(_)
GetRooms(n) ==
  IF n.Room # Nil THEN <<n.Room>>
  ELSE (IF n.Left # Nil THEN GetRooms(n.Left) ELSE <<>>)
       \o (IF n.Right # Nil THEN GetRooms(n.Right) ELSE <<>>)

RECURSIVE GetRoom(_)
GetRoom(n) ==
  IF n.Room # Nil THEN n.Room
  ELSE With([l \in {IF n.Left # Nil THEN GetRoom(n.Left) ELSE Nil} |->
         IF l # Nil THEN l
         ELSE IF n.Right # Nil THEN GetRoom(n.Right) ELSE Nil
       ])

(***************************************************************************)
(* The dungeon.  Tiles is kept as the set of Floor cells and the set of    *)
(* Door cells; every other cell of the Width x Height grid is a Wall.      *)
(* TileAt is the index expression d.Tiles[y][x]: outside the grid, where   *)
(* Go stops with an index panic, it is none of the three tiles.            *)
(***************************************************************************)
InGrid(d, x, y) == x >= 0 /\ x < d.Width /\ y >= 0 /\ y < d.Height

TileAt(d, x, y) ==
  IF ~InGrid(d, x, y) THEN -1
  ELSE IF <<x, y>> \in d.Doors THEN TileDoor
  ELSE IF <<x, y>> \in d.Floor THEN TileFloor
  ELSE TileWall

\* The rooms carved without their last row and column.
RoomCellsShort(d, room) ==
  {c \in (room.X .. room.X + room.W - 2) \X (room.Y .. room.Y + room.H - 2) :
     InGrid(d, c[1], c[2])}

RoomCells(d, room) ==
  {c \in (room.X .. room.X + room.W - 1) \X (room.Y .. room.Y + room.H - 1) :
     InGrid(d, c[1], c[2])}

carveHorizontalCorridor(d, x1, x2, y) ==
  [d EXCEPT !.Floor = @ \cup {c \in (Min2(x1, x2) .. Max2(x1, x2)) \X {y} :
                                InGrid(d, c[1], c[2])}]

\* carveVerticalCorridor with the two indices of d.Tiles exchanged.
carveVerticalCorridorTransposed(d, y1, y2, x) ==
  [d EXCEPT !.Floor = @ \cup {c \in (Min2(y1, y2) .. Max2(y1, y2)) \X {x} :
                                InGrid(d, c[1], c[2])}]

carveVerticalCorridor(d, y1, y2, x) ==
  [d EXCEPT !.Floor = @ \cup {c \in {x} \X (Min2(y1, y2) .. Max2(y1, y2)) :
                                InGrid(d, c[1], c[2])}]

RECURSIVE connectRooms(_, _, _)
connectRooms(node, d, rng) ==
  IF node.Left = Nil \/ node.Right = Nil THEN [d |-> d, rng |-> rng]
  ELSE
    With([l \in {connectRooms(node.Left, d, rng)} |->
    With([rt \in {connectRooms(node.Right, l.d, l.rng)},
          leftRoom \in {GetRoom(node.Left)},
          rightRoom \in {GetRoom(node.Right)} |->
      IF leftRoom = Nil \/ rightRoom = Nil THEN rt
      ELSE
        With([c1 \in {Center(leftRoom)}, c2 \in {Center(rightRoom)} |->
          IF Float32(rt.rng) > 500
          THEN With([h \in {carveHorizontalCorridor(rt.d, c1[1], c2[1], c1[2])} |->
                 [d |-> carveVerticalCorridor(h, c1[2], c2[2], c2[1]),
                  rng |-> Advance(rt.rng)] ])
          ELSE With([v \in {carveVerticalCorridor(rt.d, c1[2], c2[2], c1[1])} |->
                 [d |-> carveHorizontalCorridor(v, c1[1], c2[1], c2[2]),
                  rng |-> Advance(rt.rng)] ])
        ])
    ])])

GenerateDungeon(width, height, rng, codeFile) ==
  With([n0 \in {NewBSPNode(0, 0, width, height)} |->
  With([root \in {Split(n0, rng, BSPDepth)} |->
  With([tree \in {CreateRooms(root.node, root.rng)} |->
  With([rooms \in {GetRooms(tree.node)} |->
  With([d0 \in {[Width |-> width, Height |-> height, Floor |-> {}, Doors |-> {},
                 Rooms |-> rooms, CodeFile |-> codeFile]} |->
  With([d1 \in {[d0 EXCEPT !.Floor =
                   UNION {RoomCells(d0, rooms[i]) : i \in 1..Len(rooms)}]} |->
    connectRooms(tree.node, d1, tree.rng)
  ])])])])])])

\* IsWalkable comparing the tile with the wrong constant: walls can be walked.
IsWalkableThroughWalls(d, x, y) ==
  IF x < 0 \/ x >= d.Width \/ y < 0 \/ y >= d.Height THEN FALSE
  ELSE TileAt(d, x, y) # TileDoor

\* IsWalkable without its bounds test.
IsWalkableUnchecked(d, x, y) == TileAt(d, x, y) # TileWall

IsWalkable(d, x, y) ==
  IF x < 0 \/ x >= d.Width \/ y < 0 \/ y >= d.Height THEN FALSE
  ELSE TileAt(d, x, y) # TileWall

\* Returns the door position, the dungeon, the generator and whether the
\* unguarded write d.Tiles[y][x] fell outside the grid (an index panic).
PlaceDoor(d, rng) ==
  IF Len(d.Rooms) = 0
  THEN [x |-> d.Width \div 2, y |-> d.Height \div 2, d |-> d, rng |-> rng, fault |-> FALSE]
  ELSE
    With([room \in {d.Rooms[Len(d.Rooms)]}, r1 \in {Advance(rng)} |->
    With([x \in {room.X + Intn(rng, room.W - 2) + 1},
          y \in {room.Y + Intn(r1, room.H - 2) + 1} |->
      [x |-> x, y |-> y,
       d |-> IF InGrid(d, x, y)
             THEN [d EXCEPT !.Doors = @ \cup {<<x, y>>}, !.Floor = @ \ {<<x, y>>}]
             ELSE d,
       rng |-> Advance(r1), fault |-> ~InGrid(d, x, y)]
    ])])

(***************************************************************************)
(* Ray directions.  The float64 arithmetic of cos, sin and mod2pi is       *)
(* carried out in fixed point with eight decimals (Fix is 1.0); MulFix     *)
(* multiplies two fixed-point numbers without leaving 32 bits.             *)
(***************************************************************************)
MulFix(a, b) ==
  LET a1 == a \div 10000
      a0 == a % 10000
      b1 == b \div 10000
      b0 == b % 10000
  IN  a1 * b1 + (a1 * b0 + a0 * b1) \div 10000 + (a0 * b0) \div 100000000

\* float64(angle) * 3.14159265 / 180.0
Radians(angle) ==
  LET hi == angle * 31415
  IN  (hi \div 180) * 10000 + ((hi % 180) * 10000 + angle * 9265) \div 180

mod2pi(x) == IF x > 314159265 THEN x - 628318531 ELSE x

cos(rad) ==
  LET r == abs(mod2pi(rad))
      x2 == MulFix(r, r)
      x4 == MulFix(x2 \div 2, x2 \div 12)
      x6 == MulFix(x4, x2 \div 30)
  IN  100000000 - x2 \div 2 + x4 - x6

sin(rad) ==
  LET m == mod2pi(rad)
      r == abs(m)
      x2 == MulFix(r, r)
      x3 == MulFix(r, x2 \div 6)
      x5 == MulFix(x3, x2 \div 20)
      v == r - x3 + x5
  IN  IF m < 0 THEN -v ELSE v

Angles == {2 * i : i \in 0..179}

RayDir == [angle \in Angles |-> <<cos(Radians(angle)), sin(Radians(angle))>>]

\* int(start + dist*delta + 0.5): Go's conversion truncates toward zero.
RayCoord(start, delta, dist) ==
  LET v == dist * delta + 50000000
      f == start + v \div 100000000
  IN  IF f >= 0 \/ v % 100000000 = 0 THEN f ELSE f + 1

(***************************************************************************)
(* Entities                                                                *)
(***************************************************************************)
NewPlayer(x, y) ==
  [Type |-> EntityPlayer, X |-> x, Y |-> y, HP |-> 20, MaxHP |-> 20, Damage |-> 2]

NewBug(x, y) ==
  [Type |-> EntityBug, X |-> x, Y |-> y, HP |-> 1, MaxHP |-> 1, Damage |-> 1]

NewScopeCreep(x, y) ==
  [Type |-> EntityScopeCreep, X |-> x, Y |-> y, HP |-> 3, MaxHP |-> 3, Damage |-> 2]

NewPotion(x, y) ==
  [Type |-> EntityPotion, X |-> x, Y |-> y, HP |-> 0, MaxHP |-> 0, Damage |-> 0]

IsAlive(e) == e.HP > 0

\* Go's int is a two's-complement machine word: += and -= wrap around.
\* The word is 64 bits wide in the builds of the game; the model keeps the
\* wrap-around and scales the width down to IntBits.
IntBits == 8

MaxInt == 2 ^ (IntBits - 1) - 1

WrapInt(v) == ((v + 2 ^ (IntBits - 1)) % (2 ^ IntBits)) - 2 ^ (IntBits - 1)

TakeDamage(e, dmg) ==
  LET hp == WrapInt(e.HP - dmg)
  IN  [e EXCEPT !.HP = IF hp < 0 THEN 0 ELSE hp]

Heal(e, amount) ==
  LET hp == WrapInt(e.HP + amount)
  IN  [e EXCEPT !.HP = IF hp > e.MaxHP THEN e.MaxHP ELSE hp]

DistanceTo(e, other) == Max2(abs(e.X - other.X), abs(e.Y - other.Y))

\* IsAdjacent without its test for a shared tile.
IsAdjacentOrSame(e, other) ==
  LET dx == abs(e.X - other.X)
      dy == abs(e.Y - other.Y)
  IN  dx <= 1 /\ dy <= 1

IsAdjacent(e, other) ==
  LET dx == abs(e.X - other.X)
      dy == abs(e.Y - other.Y)
  IN  dx <= 1 /\ dy <= 1 /\ dx + dy > 0

(***************************************************************************)
(* The game session.  A GameState is a record g; the methods are operators *)
(* from a GameState to the GameState they leave behind.  Panic is a ghost  *)
(* field: it is set where the Go code would stop with a runtime panic (a   *)
(* nil dereference, an index out of range) and nothing runs after it.      *)
(***************************************************************************)
NumCodeFiles == 2

NoPanic == "none"
NilDereference == "nil pointer dereference"
IndexOutOfRange == "index out of range"

NewGrid(width, height) == [Width |-> width, Height |-> height, Cells |-> {}]

GameStateLiteral(seed, termWidth, termHeight) ==
  [Player |-> Nil, Enemies |-> <<>>, Potions |-> <<>>, Dungeon |-> Nil,
   Level |-> 1, MaxLevel |-> MaxLevel, DoorX |-> 0, DoorY |-> 0,
   Visible |-> NewGrid(0, 0), Explored |-> NewGrid(0, 0),
   GameOver |-> FALSE, Victory |-> FALSE, EnemiesKilled |-> 0,
   Message |-> "", MessageStyle |-> "default",
   CodeFiles |-> NumCodeFiles, RNG |-> NewSource(seed),
   TermWidth |-> termWidth, TermHeight |-> termHeight,
   KonamiSequence |-> <<>>, Invulnerable |-> FALSE, MoveCount |-> 0,
   MergeConflictX |-> 0, MergeConflictY |-> 0, OnMergeConflict |-> FALSE,
   MergeConflictTriggered |-> FALSE, MergeConflictMovements |-> 0,
   KilledBy |-> "", MergeConflictSpread |-> <<>>, ColorRotation |-> 0,
   MergeMarkerX |-> -1, MergeMarkerY |-> -1, MergeAffectedTiles |-> {},
   MergeAnimationStep |-> 0, Panic |-> NoPanic]

SetMessage(g, msg) == [g EXCEPT !.Message = msg, !.MessageStyle = "default"]

\* One ray.  cell[k] is the cell at distance k-1 from the start; the loop
\* marks the cells in that order and stops at the first that lies outside
\* the dungeon (not marked) or is a Wall (marked).  Returns the cells marked
\* and whether an index into the Visible/Explored grids fell outside them.
castRay(g, startX, startY, angle) ==
  With([dir \in {RayDir[angle]} |->
  With([cell \in {SubSeq([k \in 1..(VisionRadius + 1) |->
                            <<RayCoord(startX, dir[1], k - 1),
                              RayCoord(startY, dir[2], k - 1)>>],
                         1, VisionRadius + 1)} |->
    LET outside(k) == \/ cell[k][1] < 0 \/ cell[k][1] >= g.Dungeon.Width
                      \/ cell[k][2] < 0 \/ cell[k][2] >= g.Dungeon.Height
        offGrid(k) == \/ ~InGrid(g.Visible, cell[k][1], cell[k][2])
                      \/ ~InGrid(g.Explored, cell[k][1], cell[k][2])
        stops(k) == \/ outside(k)
                    \/ offGrid(k)
                    \/ TileAt(g.Dungeon, cell[k][1], cell[k][2]) = TileWall
    IN  With([last \in {CHOOSE k \in 1..(VisionRadius + 2) :
                          /\ k = VisionRadius + 2 \/ stops(k)
                          /\ \A j \in 1..(k - 1) : ~stops(j)} |->
          IF last = VisionRadius + 2 \/ outside(last)
          THEN [cells |-> {cell[k] : k \in 1..(last - 1)}, fault |-> FALSE]
          ELSE IF offGrid(last)
          THEN [cells |-> {cell[k] : k \in 1..(last - 1)}, fault |-> TRUE]
          ELSE [cells |-> {cell[k] : k \in 1..last}, fault |-> FALSE]
        ])
  ])])

\* The visibility update without the clearing of the Visible grid.
updateVisibilityKept(g) ==
  IF g.Player = Nil THEN [g EXCEPT !.Panic = NilDereference]
  ELSE
    With([rays \in {{castRay(g, g.Player.X, g.Player.Y, angle) : angle \in Angles}} |->
      IF \E r \in rays : r.fault THEN [g EXCEPT !.Panic = IndexOutOfRange]
      ELSE [g EXCEPT !.Visible.Cells = @ \cup UNION {r.cells : r \in rays},
                     !.Explored.Cells = @ \cup UNION {r.cells : r \in rays}]
    ])

updateVisibility(g) ==
  IF g.Player = Nil THEN [g EXCEPT !.Panic = NilDereference]
  ELSE
    With([px \in {g.Player.X}, py \in {g.Player.Y} |->
    With([rays \in {{castRay(g, px, py, angle) : angle \in Angles}} |->
    With([seen \in {UNION {r.cells : r \in rays}} |->
      IF \E r \in rays : r.fault THEN [g EXCEPT !.Panic = IndexOutOfRange]
      ELSE [g EXCEPT !.Visible.Cells = seen, !.Explored.Cells = @ \cup seen]
    ])])])

\* Up to MaxAttempts attempts, each drawing a room and a cell in it (three
\* draws); the first attempt that is walkable and off the player, the door
\* and the trap is returned.  The grid centre when there is no room or all
\* attempts were refused.
randomFloorTile(g) ==
  LET d == g.Dungeon
      try(k) ==
        With([r0 \in {AdvanceBy(g.RNG, 3 * k)},
              r1 \in {AdvanceBy(g.RNG, 3 * k + 1)},
              r2 \in {AdvanceBy(g.RNG, 3 * k + 2)} |->
        With([room \in {d.Rooms[Intn(r0, Len(d.Rooms)) + 1]} |->
          [x |-> room.X + Intn(r1, room.W), y |-> room.Y + Intn(r2, room.H),
           rng |-> Advance(r2)]
        ])])
      accepted(t) ==
        /\ IsWalkable(d, t.x, t.y)
        /\ ~(g.Player # Nil /\ t.x = g.Player.X /\ t.y = g.Player.Y)
        /\ ~(t.x = g.DoorX /\ t.y = g.DoorY)
        /\ ~(t.x = g.MergeConflictX /\ t.y = g.MergeConflictY)
  IN  IF Len(d.Rooms) = 0
      THEN [x |-> d.Width \div 2, y |-> d.Height \div 2, rng |-> g.RNG]
      ELSE
        With([good \in {{k \in 0..(MaxAttempts - 1) :
                           With([t \in {try(k)} |-> accepted(t)])}} |->
          IF good = {}
          THEN [x |-> d.Width \div 2, y |-> d.Height \div 2,
                rng |-> AdvanceBy(g.RNG, 3 * MaxAttempts)]
          ELSE try(CHOOSE k \in good : \A j \in good : k <= j)
        ])

\* game/game.go calls findCentralRoomCenter(dungeon); its body is not part
\* of the sources at hand.  Modelled from its use: the centre of the room
\* whose centre is nearest the middle of the grid (first such room), and
\* (-1, -1) for a dungeon without rooms.
findCentralRoomCenter(d) ==
  IF Len(d.Rooms) = 0 THEN <<-1, -1>>
  ELSE
    LET dist(i) == LET c == Center(d.Rooms[i])
                   IN  (c[1] - d.Width \div 2) * (c[1] - d.Width \div 2)
                       + (c[2] - d.Height \div 2) * (c[2] - d.Height \div 2)
        best == CHOOSE i \in 1..Len(d.Rooms) :
                  \A j \in 1..Len(d.Rooms) : dist(i) < dist(j) \/ (dist(i) = dist(j) /\ i <= j)
    IN  Center(d.Rooms[best])

\* The spawn loops.  A loop of more than one iteration is taken as its
\* first half followed by the rest.
RECURSIVE spawnEnemies(_, _)
spawnEnemies(g, remaining) ==
  IF remaining = 0 THEN g
  ELSE IF remaining = 1 THEN
    With([t \in {randomFloorTile(g)} |->
    With([e \in {IF Float32(t.rng) > 400 THEN NewBug(t.x, t.y)
                 ELSE NewScopeCreep(t.x, t.y)} |->
      [g EXCEPT !.Enemies = Append(@, e), !.RNG = Advance(t.rng)]
    ])])
  ELSE
    With([g1 \in {spawnEnemies(g, remaining \div 2)} |->
      spawnEnemies(g1, remaining - remaining \div 2)
    ])

RECURSIVE spawnPotions(_, _)
spawnPotions(g, remaining) ==
  IF remaining = 0 THEN g
  ELSE IF remaining = 1 THEN
    With([t \in {randomFloorTile(g)} |->
      [g EXCEPT !.Potions = Append(@, NewPotion(t.x, t.y)), !.RNG = t.rng]
    ])
  ELSE
    With([g1 \in {spawnPotions(g, remaining \div 2)} |->
      spawnPotions(g1, remaining - remaining \div 2)
    ])

\* generateLevel in its four parts: the dungeon with the grids and the
\* player, the door, the trap with the enemies and the potions, and the
\* marker with the first view.
levelDungeon(g) ==
  With([width \in {IF g.TermWidth < MinWidth THEN MinWidth ELSE g.TermWidth},
        height \in {IF g.TermHeight - UIRows < MinHeight THEN MinHeight
                    ELSE g.TermHeight - UIRows},
        codeFile \in {IF g.CodeFiles > 0 THEN (g.Level - 1) % g.CodeFiles ELSE -1} |->
  With([gen \in {GenerateDungeon(width, height, g.RNG, codeFile)} |->
  With([g1 \in {[g EXCEPT !.Dungeon = gen.d, !.RNG = gen.rng,
                          !.Visible = NewGrid(width, height),
                          !.Explored = NewGrid(width, height)]} |->
    IF Len(g1.Dungeon.Rooms) > 0
    THEN With([c \in {Center(g1.Dungeon.Rooms[1])} |->
           IF g1.Player = Nil
           THEN [g1 EXCEPT !.Player = NewPlayer(c[1], c[2])]
           ELSE [g1 EXCEPT !.Player.X = c[1], !.Player.Y = c[2]] ])
    ELSE g1
  ])])])

levelDoor(g) ==
  With([door \in {PlaceDoor(g.Dungeon, g.RNG)} |->
    IF door.fault THEN [g EXCEPT !.Panic = IndexOutOfRange]
    ELSE [g EXCEPT !.DoorX = door.x, !.DoorY = door.y, !.Dungeon = door.d,
                   !.RNG = door.rng]
  ])

\* The contents of a level added to the enemies and potions of the level
\* before.
levelContentsKept(g) ==
  With([trap \in {randomFloorTile(g)} |->
  With([g4 \in {[g EXCEPT !.MergeConflictX = trap.x, !.MergeConflictY = trap.y,
                          !.OnMergeConflict = FALSE, !.RNG = trap.rng]} |->
  With([g5 \in {spawnEnemies(g4, 3 + g4.Level * 2)} |->
  With([numPotions \in {2 + g5.Level + Intn(g5.RNG, 2)},
        g5a \in {[g5 EXCEPT !.RNG = Advance(g5.RNG)]} |->
    spawnPotions(g5a, numPotions)
  ])])])])

levelContents(g) ==
  With([trap \in {randomFloorTile(g)} |->
  With([g4 \in {[g EXCEPT !.MergeConflictX = trap.x, !.MergeConflictY = trap.y,
                          !.OnMergeConflict = FALSE, !.RNG = trap.rng,
                          !.Enemies = <<>>]} |->
  With([g5 \in {spawnEnemies(g4, 3 + g4.Level * 2)} |->
  With([numPotions \in {2 + g5.Level + Intn(g5.RNG, 2)},
        g5a \in {[g5 EXCEPT !.Potions = <<>>, !.RNG = Advance(g5.RNG)]} |->
    spawnPotions(g5a, numPotions)
  ])])])])

generateLevel(g) ==
  With([g2 \in {levelDungeon(g)} |->
  With([g3 \in {levelDoor(g2)} |->
    IF g3.Panic # NoPanic THEN g3
    ELSE
      With([g6 \in {levelContents(g3)} |->
      With([marker \in {findCentralRoomCenter(g6.Dungeon)} |->
      With([g7 \in {[g6 EXCEPT !.MergeMarkerX = marker[1], !.MergeMarkerY = marker[2],
                               !.MergeAffectedTiles = {}]} |->
      With([g8 \in {updateVisibility(g7)} |->
        IF g8.Panic # NoPanic THEN g8 ELSE SetMessage(g8, "")
      ])])])])
  ])])

NewGameState(seed, termWidth, termHeight) ==
  With([g \in {GameStateLiteral(seed, termWidth, termHeight)} |-> generateLevel(g)])

(***************************************************************************)
(* The hazards                                                             *)
(***************************************************************************)
MergeConflictWarning == "WARNING: MERGE CONFLICT DETECTED. TREAD CAREFULLY."

distanceToMergeConflict(g) ==
  Max2(abs(g.Player.X - g.MergeConflictX), abs(g.Player.Y - g.MergeConflictY))

isInMergeConflictArea(g, x, y) ==
  LET dx == x - g.MergeConflictX
      dy == y - g.MergeConflictY
  IN  \/ (dx >= -2 /\ dx <= 2 /\ dy >= -1 /\ dy <= 1)
      \/ \E i \in 1..Len(g.MergeConflictSpread) : g.MergeConflictSpread[i] = <<x, y>>

isPlayerInMergeConflictArea(g) == isInMergeConflictArea(g, g.Player.X, g.Player.Y)

\* rand.Shuffle: for i := n-1; i > 0; i-- { j := Intn(i+1); swap(i, j) }
\* swapRounds runs the rounds i = hi down to lo of that loop on s, a
\* sequence and the generator: the upper half of the rounds first, then the
\* lower half on what they left.
RECURSIVE swapRounds(_, _, _)
swapRounds(s, hi, lo) ==
  IF hi < lo THEN s
  ELSE IF hi = lo THEN
    With([j \in {Intn(s.rng, hi + 1)} |->
      [seq |-> [s.seq EXCEPT ![hi + 1] = s.seq[j + 1], ![j + 1] = s.seq[hi + 1]],
       rng |-> Advance(s.rng)]
    ])
  ELSE
    With([upper \in {swapRounds(s, hi, (hi + lo) \div 2 + 1)} |->
      swapRounds(upper, (hi + lo) \div 2, lo)
    ])

Shuffle(seq, rng, i) == swapRounds([seq |-> seq, rng |-> rng], i, 1)

Directions == << <<-1, -1>>, <<0, -1>>, <<1, -1>>, <<-1, 0>>, <<1, 0>>, <<-1, 1>>, <<0, 1>>, <<1, 1>> >>

\* The core tiles are the keys of a Go map, and "for tile := range coreTiles"
\* visits them in an order the runtime picks afresh on every run: mapOrder
\* is that choice (a rotation of the insertion order).  adjacentTiles is the
\* slice the loop builds: the walkable neighbours of the core tiles outside
\* the core, each once, in the order they are met.
adjacentTiles(g, mapOrder) ==
  LET core(k) == <<g.MergeConflictX + ((k - 1) % 5) - 2,
                   g.MergeConflictY + ((k - 1) \div 5) - 1>>
      visit(k) == core(((k - 1 + mapOrder) % 15) + 1)
      cand(n) == LET t == visit(((n - 1) \div 8) + 1)
                     dir == Directions[((n - 1) % 8) + 1]
                 IN  <<t[1] + dir[1], t[2] + dir[2]>>
  IN  With([coreSet \in {{core(k) : k \in 1..15}},
            cands \in {SubSeq([n \in 1..120 |-> cand(n)], 1, 120)} |->
        LET eligible(n) ==
              /\ cands[n] \notin coreSet
              /\ InGrid(g.Dungeon, cands[n][1], cands[n][2])
              /\ IsWalkable(g.Dungeon, cands[n][1], cands[n][2])
              /\ \A m \in 1..(n - 1) : cands[m] # cands[n]
        IN  With([picked \in {SelectSeq([n \in 1..120 |-> n], eligible)} |->
              SubSeq([i \in 1..Len(picked) |-> cands[picked[i]]], 1, Len(picked))
            ])
      ])

generateMergeConflictSpread(g, mapOrder) ==
  IF g.Dungeon = Nil THEN g
  ELSE
    With([adjacent \in {adjacentTiles(g, mapOrder)} |->
    With([sh \in {Shuffle(adjacent, g.RNG, Len(adjacent) - 1)} |->
      [g EXCEPT !.MergeConflictSpread = SubSeq(sh.seq, 1, Min2(NumSpread, Len(adjacent))),
                !.RNG = sh.rng]
    ])])

\* The trap burning on entry only.
checkMergeConflictOnce(g, mapOrder) ==
  LET onTrapCenter == g.Player.X = g.MergeConflictX /\ g.Player.Y = g.MergeConflictY
  IN  IF onTrapCenter THEN
        With([g0 \in {[g EXCEPT !.OnMergeConflict = TRUE,
                                !.MergeConflictTriggered = TRUE,
                                !.MergeConflictMovements = 0]} |->
        With([g1 \in {IF ~g.OnMergeConflict
                      THEN generateMergeConflictSpread(g0, mapOrder)
                      ELSE g} |->
        With([g2 \in {[g1 EXCEPT !.ColorRotation = @ + 1]} |->
          IF ~g2.Invulnerable /\ ~g.OnMergeConflict THEN
            With([g3 \in {[g2 EXCEPT !.Player = TakeDamage(@, 1),
                                     !.Message = "- 1 HP damage",
                                     !.MessageStyle = "red"]} |->
              IF ~IsAlive(g3.Player) THEN [g3 EXCEPT !.KilledBy = "merge_conflict"]
              ELSE g3
            ])
          ELSE SetMessage(g2, "The merge conflict burns around you, but your invulnerability protects you!")
        ])])])
      ELSE IF g.MergeConflictTriggered THEN
        With([g1 \in {[g EXCEPT !.ColorRotation = @ + 1]} |->
          IF g1.OnMergeConflict /\ ~isPlayerInMergeConflictArea(g1)
          THEN [g1 EXCEPT !.OnMergeConflict = FALSE]
          ELSE g1
        ])
      ELSE [g EXCEPT !.OnMergeConflict = FALSE]

\* The trap that keeps the player marked as burning wherever it goes.
checkMergeConflictSticky(g, mapOrder) ==
  LET onTrapCenter == g.Player.X = g.MergeConflictX /\ g.Player.Y = g.MergeConflictY
  IN  IF onTrapCenter THEN
        With([g0 \in {[g EXCEPT !.OnMergeConflict = TRUE,
                                !.MergeConflictTriggered = TRUE,
                                !.MergeConflictMovements = 0]} |->
        With([g1 \in {IF ~g.OnMergeConflict
                      THEN generateMergeConflictSpread(g0, mapOrder)
                      ELSE g} |->
        With([g2 \in {[g1 EXCEPT !.ColorRotation = @ + 1]} |->
          IF ~g2.Invulnerable THEN
            With([g3 \in {[g2 EXCEPT !.Player = TakeDamage(@, 1),
                                     !.Message = "- 1 HP damage",
                                     !.MessageStyle = "red"]} |->
              IF ~IsAlive(g3.Player) THEN [g3 EXCEPT !.KilledBy = "merge_conflict"]
              ELSE g3
            ])
          ELSE SetMessage(g2, "The merge conflict burns around you, but your invulnerability protects you!")
        ])])])
      ELSE IF g.MergeConflictTriggered THEN [g EXCEPT !.ColorRotation = @ + 1]
      ELSE [g EXCEPT !.OnMergeConflict = FALSE]

checkMergeConflict(g, mapOrder) ==
  LET onTrapCenter == g.Player.X = g.MergeConflictX /\ g.Player.Y = g.MergeConflictY
  IN  IF onTrapCenter THEN
        With([g0 \in {[g EXCEPT !.OnMergeConflict = TRUE,
                                !.MergeConflictTriggered = TRUE,
                                !.MergeConflictMovements = 0]} |->
        With([g1 \in {IF ~g.OnMergeConflict
                      THEN generateMergeConflictSpread(g0, mapOrder)
                      ELSE g} |->
        With([g2 \in {[g1 EXCEPT !.ColorRotation = @ + 1]} |->
          IF ~g2.Invulnerable THEN
            With([g3 \in {[g2 EXCEPT !.Player = TakeDamage(@, 1),
                                     !.Message = "- 1 HP damage",
                                     !.MessageStyle = "red"]} |->
              IF ~IsAlive(g3.Player) THEN [g3 EXCEPT !.KilledBy = "merge_conflict"]
              ELSE g3
            ])
          ELSE SetMessage(g2, "The merge conflict burns around you, but your invulnerability protects you!")
        ])])])
      ELSE IF g.MergeConflictTriggered THEN
        With([g1 \in {[g EXCEPT !.ColorRotation = @ + 1]} |->
          IF g1.OnMergeConflict /\ ~isPlayerInMergeConflictArea(g1)
          THEN [g1 EXCEPT !.OnMergeConflict = FALSE]
          ELSE g1
        ])
      ELSE [g EXCEPT !.OnMergeConflict = FALSE]

triggerMergeConflict(g) ==
  With([g1 \in {IF ~g.Invulnerable THEN [g EXCEPT !.Player = TakeDamage(@, MarkerDamage)]
                ELSE g} |->
  With([g2 \in {SetMessage(g1, "MERGE CONFLICT! The code tears apart around you!")} |->
  With([keys \in {{(g2.MergeMarkerY + c[2]) * g2.Dungeon.Width + (g2.MergeMarkerX + c[1]) :
                     c \in {c \in (-1..1) \X (-1..1) :
                              InGrid(g2.Dungeon, g2.MergeMarkerX + c[1],
                                     g2.MergeMarkerY + c[2])}}} |->
  With([g3 \in {[g2 EXCEPT !.MergeAffectedTiles = @ \cup keys]} |->
    IF ~IsAlive(g3.Player)
    THEN With([g4 \in {[g3 EXCEPT !.GameOver = TRUE]} |->
           SetMessage(g4, "You died in a merge conflict!") ])
    ELSE g3
  ])])])])

IsMergeAffected(g, x, y) == (y * g.Dungeon.Width + x) \in g.MergeAffectedTiles

(***************************************************************************)
(* The turn                                                                *)
(***************************************************************************)
\* The Go code steps x and y by float64 increments dx/steps and dy/steps and
\* rounds with int(v+0.5); here the i-th point is the exact rational
\* x1 + i*dx/steps rounded half up (all coordinates are non-negative).  The
\* accumulated float64 sum can fall just below an exact half and round the
\* other way; the cells tested stay within the box spanned by the two ends
\* either way.
LineCell(x1, y1, x2, y2, i) ==
  LET dx == x2 - x1
      dy == y2 - y1
      steps == Max2(abs(dx), abs(dy))
  IN  << (2 * (x1 * steps + i * dx) + steps) \div (2 * steps),
         (2 * (y1 * steps + i * dy) + steps) \div (2 * steps) >>

hasLineOfSight(g, x1, y1, x2, y2) ==
  LET steps == Max2(abs(x2 - x1), abs(y2 - y1))
  IN  \/ steps = 0
      \/ \A i \in 1..steps :
           LET c == LineCell(x1, y1, x2, y2, i) IN IsWalkable(g.Dungeon, c[1], c[2])

\* self is the index of the moving enemy in g.Enemies (the pointer compared
\* with e != self).
canEnemyMoveTo(g, x, y, self) ==
  /\ IsWalkable(g.Dungeon, x, y)
  /\ ~(x = g.Player.X /\ y = g.Player.Y)
  /\ \A j \in 1..Len(g.Enemies) :
       ~(j # self /\ IsAlive(g.Enemies[j]) /\ g.Enemies[j].X = x /\ g.Enemies[j].Y = y)

\* The turn of an enemy that chases the player without seeing it.
moveEnemyBlind(g, i) ==
  LET enemy == g.Enemies[i]
  IN  IF ~IsAlive(enemy) THEN g
      ELSE
        With([dx \in {IF enemy.X < g.Player.X THEN 1
                      ELSE IF enemy.X > g.Player.X THEN -1 ELSE 0},
              dy \in {IF enemy.Y < g.Player.Y THEN 1
                      ELSE IF enemy.Y > g.Player.Y THEN -1 ELSE 0} |->
        With([moved \in {IF canEnemyMoveTo(g, enemy.X + dx, enemy.Y + dy, i)
                           THEN [enemy EXCEPT !.X = @ + dx, !.Y = @ + dy]
                         ELSE IF dx # 0 /\ canEnemyMoveTo(g, enemy.X + dx, enemy.Y, i)
                           THEN [enemy EXCEPT !.X = @ + dx]
                         ELSE IF dy # 0 /\ canEnemyMoveTo(g, enemy.X, enemy.Y + dy, i)
                           THEN [enemy EXCEPT !.Y = @ + dy]
                         ELSE enemy} |->
        With([burnt \in {IF g.MergeConflictTriggered
                            /\ isInMergeConflictArea(g, moved.X, moved.Y)
                         THEN TakeDamage(moved, 1)
                         ELSE moved} |->
          [g EXCEPT !.Enemies[i] = burnt]
        ])])])

moveEnemy(g, i) ==
  LET enemy == g.Enemies[i]
  IN  IF ~IsAlive(enemy) THEN g
      ELSE IF ~hasLineOfSight(g, enemy.X, enemy.Y, g.Player.X, g.Player.Y) THEN g
      ELSE
        With([dx \in {IF enemy.X < g.Player.X THEN 1
                      ELSE IF enemy.X > g.Player.X THEN -1 ELSE 0},
              dy \in {IF enemy.Y < g.Player.Y THEN 1
                      ELSE IF enemy.Y > g.Player.Y THEN -1 ELSE 0} |->
        With([moved \in {IF canEnemyMoveTo(g, enemy.X + dx, enemy.Y + dy, i)
                           THEN [enemy EXCEPT !.X = @ + dx, !.Y = @ + dy]
                         ELSE IF dx # 0 /\ canEnemyMoveTo(g, enemy.X + dx, enemy.Y, i)
                           THEN [enemy EXCEPT !.X = @ + dx]
                         ELSE IF dy # 0 /\ canEnemyMoveTo(g, enemy.X, enemy.Y + dy, i)
                           THEN [enemy EXCEPT !.Y = @ + dy]
                         ELSE enemy} |->
        With([burnt \in {IF g.MergeConflictTriggered
                            /\ isInMergeConflictArea(g, moved.X, moved.Y)
                         THEN TakeDamage(moved, 1)
                         ELSE moved} |->
          [g EXCEPT !.Enemies[i] = burnt]
        ])])])

RECURSIVE moveEnemiesFrom(_, _)
moveEnemiesFrom(g, i) ==
  IF i > Len(g.Enemies) THEN g
  ELSE With([g1 \in {moveEnemy(g, i)} |-> moveEnemiesFrom(g1, i + 1)])

moveEnemies(g) == moveEnemiesFrom(g, 1)

AttackMessage(enemy) ==
  IF enemy.Type = EntityBug THEN "A bug attacked - 1 HP damage"
  ELSE "A scope creep attacked - 2 HP damage"

RECURSIVE enemyAttacksFrom(_, _)
enemyAttacksFrom(g, i) ==
  IF i > Len(g.Enemies) THEN g
  ELSE
    LET enemy == g.Enemies[i]
    IN  IF IsAlive(enemy) /\ IsAdjacent(g.Player, enemy) THEN
          With([g1 \in {[g EXCEPT !.Player = TakeDamage(@, enemy.Damage),
                                   !.Message = AttackMessage(enemy),
                                   !.MessageStyle = "red"]} |->
          With([g2 \in {IF ~IsAlive(g1.Player)
                        THEN [g1 EXCEPT !.KilledBy = IF enemy.Type = EntityBug THEN "bug"
                                                     ELSE "scope_creep"]
                        ELSE g1} |->
            enemyAttacksFrom(g2, i + 1)
          ])])
        ELSE enemyAttacksFrom(g, i + 1)

enemyAttacksUnguarded(g) == enemyAttacksFrom(g, 1)

enemyAttacks(g) == IF g.Invulnerable THEN g ELSE enemyAttacksFrom(g, 1)

\* The player's blow on enemy i, shared by the bump attack and the
\* auto-attack: damage, and on a kill the counter and the message.
strike(g, i) ==
  With([hit \in {TakeDamage(g.Enemies[i], g.Player.Damage)} |->
  With([g1 \in {[g EXCEPT !.Enemies[i] = hit]} |->
    IF ~IsAlive(hit)
    THEN With([g2 \in {[g1 EXCEPT !.EnemiesKilled = @ + 1]} |->
           SetMessage(g2, IF hit.Type = EntityBug THEN "You squashed a bug!"
                          ELSE "You eliminated a scope creep!") ])
    ELSE g1
  ])])

RECURSIVE playerAutoAttackFrom(_, _)
playerAutoAttackFrom(g, i) ==
  IF i > Len(g.Enemies) THEN g
  ELSE IF IsAlive(g.Enemies[i]) /\ IsAdjacent(g.Player, g.Enemies[i])
       THEN With([g1 \in {strike(g, i)} |-> playerAutoAttackFrom(g1, i + 1)])
       ELSE playerAutoAttackFrom(g, i + 1)

playerAutoAttack(g) == playerAutoAttackFrom(g, 1)

\* The turn with the enemies moving before the player's auto-attack.
processTurnEnemiesFirst(g, mapOrder) ==
  With([g1 \in {moveEnemies(g)} |->
  With([g2 \in {playerAutoAttack(g1)} |->
  With([g3 \in {checkMergeConflict(g2, mapOrder)} |->
  With([g4 \in {enemyAttacks(g3)} |->
  With([g5 \in {updateVisibility(g4)} |->
  With([g6 \in {IF g5.OnMergeConflict THEN [g5 EXCEPT !.MergeConflictMovements = @ + 1]
                ELSE g5} |->
  With([distance \in {distanceToMergeConflict(g6)} |->
    IF ~IsAlive(g6.Player)
    THEN With([g7 \in {[g6 EXCEPT !.GameOver = TRUE]} |-> SetMessage(g7, "You died!")])
    ELSE IF distance <= 2 /\ distance > 0 /\ g6.Message = ""
         THEN SetMessage(g6, MergeConflictWarning)
    ELSE g6
  ])])])])])])])

\* The turn without the check for the player's death at its end.
processTurnUnchecked(g, mapOrder) ==
  With([g1 \in {playerAutoAttack(g)} |->
  With([g2 \in {checkMergeConflict(g1, mapOrder)} |->
  With([g3 \in {moveEnemies(g2)} |->
  With([g4 \in {enemyAttacks(g3)} |->
  With([g5 \in {updateVisibility(g4)} |->
  With([g6 \in {IF g5.OnMergeConflict THEN [g5 EXCEPT !.MergeConflictMovements = @ + 1]
                ELSE g5} |->
  With([distance \in {distanceToMergeConflict(g6)} |->
    IF distance <= 2 /\ distance > 0 /\ g6.Message = ""
    THEN SetMessage(g6, MergeConflictWarning)
    ELSE g6
  ])])])])])])])

processTurn(g, mapOrder) ==
  With([g1 \in {playerAutoAttack(g)} |->
  With([g2 \in {checkMergeConflict(g1, mapOrder)} |->
  With([g3 \in {moveEnemies(g2)} |->
  With([g4 \in {enemyAttacks(g3)} |->
  With([g5 \in {updateVisibility(g4)} |->
  With([g6 \in {IF g5.OnMergeConflict THEN [g5 EXCEPT !.MergeConflictMovements = @ + 1]
                ELSE g5} |->
  With([distance \in {distanceToMergeConflict(g6)} |->
    IF ~IsAlive(g6.Player)
    THEN With([g7 \in {[g6 EXCEPT !.GameOver = TRUE]} |-> SetMessage(g7, "You died!")])
    ELSE IF distance <= 2 /\ distance > 0 /\ g6.Message = ""
         THEN SetMessage(g6, MergeConflictWarning)
    ELSE g6
  ])])])])])])])

(***************************************************************************)
(* The exported operations                                                 *)
(***************************************************************************)
\* The door below the final level: the next level is generated.
\* The transition with a new player entity.
descendFresh(g) ==
  With([g1 \in {[g EXCEPT !.Level = @ + 1, !.Player = Nil]} |->
  With([next \in {generateLevel(g1)} |->
    IF next.Panic # NoPanic THEN next
    ELSE SetMessage(next, "You descend deeper into the dungeon...")
  ])])

descend(g) ==
  With([g1 \in {[g EXCEPT !.Level = @ + 1]} |->
  With([next \in {generateLevel(g1)} |->
    IF next.Panic # NoPanic THEN next
    ELSE SetMessage(next, "You descend deeper into the dungeon...")
  ])])

\* The step onto a free tile: the move itself, the animation, a potion on
\* the tile and the marker.
stepOnto(g, newX, newY) ==
  With([m1 \in {[g EXCEPT !.Player.X = newX, !.Player.Y = newY,
                          !.MoveCount = @ + 1]} |->
  With([m2 \in {IF m1.MergeAffectedTiles # {}
                THEN [m1 EXCEPT !.MergeAnimationStep = @ + 1]
                ELSE m1},
        found \in {{i \in 1..Len(m1.Potions) :
                      m1.Potions[i].X = newX /\ m1.Potions[i].Y = newY}} |->
  With([m3 \in {IF found # {}
                THEN With([i \in {CHOOSE i \in found : \A j \in found : i <= j} |->
                     With([drunk \in {[m2 EXCEPT
                                         !.Player = Heal(m2.Player, PotionHeal),
                                         !.Potions = SubSeq(@, 1, i - 1) \o
                                                     SubSeq(@, i + 1, Len(@))]} |->
                       SetMessage(drunk, "You drink a health potion! (+3 HP)")
                     ])])
                ELSE m2} |->
    IF newX = m3.MergeMarkerX /\ newY = m3.MergeMarkerY
    THEN triggerMergeConflict(m3)
    ELSE m3
  ])])])

\* The bump attack counted as a move.
bumpAttackCounted(g, i) ==
  With([b1 \in {strike([g EXCEPT !.MoveCount = @ + 1], i)} |->
  With([b2 \in {IF IsAlive(b1.Enemies[i]) THEN SetMessage(b1, "You attack!")
                ELSE b1} |->
  With([b3 \in {moveEnemies(b2)} |->
  With([b4 \in {enemyAttacks(b3)} |->
  With([b5 \in {updateVisibility(b4)} |->
    IF ~IsAlive(b5.Player)
    THEN With([b6 \in {[b5 EXCEPT !.GameOver = TRUE]} |->
           SetMessage(b6, "You died!") ])
    ELSE b5
  ])])])])])

\* The bump attack on enemy i, and the enemies' turn after it.
bumpAttack(g, i) ==
  With([b1 \in {strike(g, i)} |->
  With([b2 \in {IF IsAlive(b1.Enemies[i]) THEN SetMessage(b1, "You attack!")
                ELSE b1} |->
  With([b3 \in {moveEnemies(b2)} |->
  With([b4 \in {enemyAttacks(b3)} |->
  With([b5 \in {updateVisibility(b4)} |->
    IF ~IsAlive(b5.Player)
    THEN With([b6 \in {[b5 EXCEPT !.GameOver = TRUE]} |->
           SetMessage(b6, "You died!") ])
    ELSE b5
  ])])])])])

\* MovePlayer past its first test: the session is not over.
movePlayerFrom(g, dx, dy, mapOrder) ==
  IF g.Player = Nil \/ g.Dungeon = Nil THEN [g EXCEPT !.Panic = NilDereference]
  ELSE
    LET newX == g.Player.X + dx
        newY == g.Player.Y + dy
        bumped == {i \in 1..Len(g.Enemies) :
                     /\ IsAlive(g.Enemies[i])
                     /\ g.Enemies[i].X = newX /\ g.Enemies[i].Y = newY}
    IN  IF ~IsWalkable(g.Dungeon, newX, newY) THEN g
        ELSE IF bumped # {} THEN
          With([i \in {CHOOSE i \in bumped : \A j \in bumped : i <= j} |->
            bumpAttack(g, i)
          ])
        ELSE
          With([m4 \in {stepOnto(g, newX, newY)} |->
            IF newX = m4.DoorX /\ newY = m4.DoorY THEN
              IF m4.Level >= m4.MaxLevel
              THEN With([won \in {[m4 EXCEPT !.Victory = TRUE]} |->
                     SetMessage(won, "You've escaped the dungeon! Victory!") ])
              ELSE descend(m4)
            ELSE processTurn(m4, mapOrder)
          ])

\* MovePlayer without its first test.
MovePlayerUnfrozen(g, dx, dy, mapOrder) == movePlayerFrom(g, dx, dy, mapOrder)

MovePlayer(g, dx, dy, mapOrder) ==
  IF g.GameOver \/ g.Victory THEN g
  ELSE movePlayerFrom(g, dx, dy, mapOrder)

\* Resize building the level anew for the new size.
ResizeNow(g, termWidth, termHeight) ==
  generateLevel([g EXCEPT !.TermWidth = termWidth, !.TermHeight = termHeight])

Resize(g, termWidth, termHeight) ==
  [g EXCEPT !.TermWidth = termWidth, !.TermHeight = termHeight]

konamiCode == <<"up", "up", "down", "down", "left", "right", "left", "right", "b", "a">>

CheckKonamiCodeUntrimmed(g, key) ==
  With([kept \in {Append(g.KonamiSequence, key)} |->
  With([g1 \in {[g EXCEPT !.KonamiSequence = kept]} |->
    IF kept = konamiCode /\ ~g1.Invulnerable
    THEN With([g2 \in {[g1 EXCEPT !.Invulnerable = TRUE]} |->
           SetMessage(g2, "KONAMI CODE ACTIVATED! You are now invulnerable!") ])
    ELSE g1
  ])])

CheckKonamiCode(g, key) ==
  With([appended \in {Append(g.KonamiSequence, key)} |->
  With([kept \in {IF Len(appended) > 10
                  THEN SubSeq(appended, Len(appended) - 9, Len(appended))
                  ELSE appended} |->
  With([g1 \in {[g EXCEPT !.KonamiSequence = kept]} |->
    IF kept = konamiCode /\ ~g1.Invulnerable
    THEN With([g2 \in {[g1 EXCEPT !.Invulnerable = TRUE]} |->
           SetMessage(g2, "KONAMI CODE ACTIVATED! You are now invulnerable!") ])
    ELSE g1
  ])])])

\* One frame.  The screen is not part of the model; what the frame does to
\* the session is the draws renderMergeConflict takes from the session RNG
\* for its 3x5 pattern once the trap has burnt for more than two turns.

renderMergeConflict(g) ==
  IF g.MergeConflictMovements > 2 THEN [g EXCEPT !.RNG = AdvanceBy(g.RNG, 3 * 5)] ELSE g

render(g) ==
  IF g.Dungeon = Nil THEN [g EXCEPT !.Panic = NilDereference]
  ELSE IF g.MergeConflictTriggered THEN renderMergeConflict(g)
  ELSE g

(***************************************************************************)
(* The session: Run renders a frame, then handles one event.  The steps    *)
(* are the calls Run makes on the GameState: render, Resize,               *)
(* CheckKonamiCode and MovePlayer, each an exported operation taken as a   *)
(* step of its own.  Run itself skips key events once the session is over; *)
(* MovePlayer is exported and is called here in every state, so that its   *)
(* own test of GameOver and Victory is what keeps a finished session still.*)
(* op records the operation that led to the current state and its          *)
(* arguments, frames and resizes count the frames rendered and the resize  *)
(* events handled, pressed is the sequence of keys passed to               *)
(* CheckKonamiCode since the session began.                                *)
(***************************************************************************)
Seeds == 1..Len(Streams)

PlaySeeds == {1, 2}

TermSizes == {<<40, 23>>, <<80, 43>>}

Dirs == {<<0, -1>>, <<0, 1>>}

Keys == {"up", "b"}

MaxFrames == 6
MaxKeys == 1
MaxResizes == 1
MapOrders == 2

\* The iteration order of the core-tile map matters only to a call that runs
\* generateMergeConflictSpread: a step onto the centre of a trap the player
\* is not already burning on.
MapOrdersFor(g, dx, dy) ==
  IF /\ g.Player # Nil
     /\ g.Player.X + dx = g.MergeConflictX
     /\ g.Player.Y + dy = g.MergeConflictY
     /\ ~g.OnMergeConflict
  THEN 0..(MapOrders - 1)
  ELSE {0}

\* Whether the tile (dx, dy) away from the player is a Wall or off the grid.
Walled(g, dx, dy) ==
  \/ ~InGrid(g.Dungeon, g.Player.X + dx, g.Player.Y + dy)
  \/ TileAt(g.Dungeon, g.Player.X + dx, g.Player.Y + dy) = TileWall

\* The record of an operation: its name and arguments and, as the call
\* found them, whether the session was over and whether a move's target
\* was a wall.
Op(g, name, x, y) ==
  [name |-> name, x |-> x, y |-> y,
   over |-> g.GameOver \/ g.Victory,
   walled |-> name = "MovePlayer" /\ g.Player # Nil /\ Walled(g, x, y)]

Init ==
  /\ \E seed \in PlaySeeds :
       gs = NewGameState(seed, 40, 23)
  /\ op = Op(gs, "NewGameState", 0, 0)
  /\ frames = 0
  /\ resizes = 0
  /\ pressed = <<>>

Render ==
  /\ gs.Panic = NoPanic
  /\ op.name # "render"
  /\ frames < MaxFrames
  /\ gs' = render(gs)
  /\ op' = Op(gs, "render", 0, 0)
  /\ frames' = frames + 1
  /\ UNCHANGED <<resizes, pressed>>

MovePlayerStep(dx, dy, mapOrder) ==
  /\ gs.Panic = NoPanic
  /\ op.name = "render"
  /\ gs' = MovePlayer(gs, dx, dy, mapOrder)
  /\ op' = Op(gs, "MovePlayer", dx, dy)
  /\ UNCHANGED <<frames, resizes, pressed>>

ResizeStep(termWidth, termHeight) ==
  /\ gs.Panic = NoPanic
  /\ op.name = "render"
  /\ resizes < MaxResizes
  /\ <<termWidth, termHeight>> # <<gs.TermWidth, gs.TermHeight>>
  /\ gs' = Resize(gs, termWidth, termHeight)
  /\ op' = Op(gs, "Resize", termWidth, termHeight)
  /\ resizes' = resizes + 1
  /\ UNCHANGED <<frames, pressed>>

CheckKonamiCodeStep(key) ==
  /\ gs.Panic = NoPanic
  /\ op.name = "render"
  /\ Len(gs.KonamiSequence) < MaxKeys
  /\ gs' = CheckKonamiCode(gs, key)
  /\ op' = Op(gs, "CheckKonamiCode", 0, 0)
  /\ pressed' = Append(pressed, key)
  /\ UNCHANGED <<frames, resizes>>

Next ==
  \/ Render
  \/ \E d \in Dirs : \E mapOrder \in MapOrdersFor(gs, d[1], d[2]) :
       MovePlayerStep(d[1], d[2], mapOrder)
  \/ \E size \in TermSizes : ResizeStep(size[1], size[2])
  \/ \E key \in Keys : CheckKonamiCodeStep(key)

Spec == Init /\ [][Next]_vars

(***************************************************************************)
(* Level generation on its own: the inputs are a seed and a terminal size; *)
(* NewGameState builds the first level from them, a resize changes the     *)
(* size the next level is built for, and each descent builds the next      *)
(* level from where the generator stands.                                  *)
(***************************************************************************)
GenSizes == {<<0, 0>>, <<-7, 5>>, <<40, 23>>, <<41, 24>>, <<60, 30>>, <<80, 43>>}

GenInit ==
  /\ \E seed \in Seeds, size \in GenSizes : gs = GameStateLiteral(seed, size[1], size[2])
  /\ op = Op(gs, "GameState", 0, 0)
  /\ frames = 0
  /\ resizes = 0
  /\ pressed = <<>>

NewGameStateStep ==
  /\ gs.Panic = NoPanic
  /\ gs.Dungeon = Nil
  /\ gs' = generateLevel(gs)
  /\ op' = Op(gs, "NewGameState", gs.TermWidth, gs.TermHeight)
  /\ UNCHANGED <<frames, resizes, pressed>>

DescendStep ==
  /\ gs.Panic = NoPanic
  /\ gs.Dungeon # Nil
  /\ gs.Level < gs.MaxLevel
  /\ gs' = descend(gs)
  /\ op' = Op(gs, "generateLevel", gs.TermWidth, gs.TermHeight)
  /\ UNCHANGED <<frames, resizes, pressed>>

GenResizeStep(termWidth, termHeight) ==
  /\ gs.Panic = NoPanic
  /\ gs.Dungeon # Nil
  /\ resizes < MaxResizes
  /\ <<termWidth, termHeight>> # <<gs.TermWidth, gs.TermHeight>>
  /\ gs' = Resize(gs, termWidth, termHeight)
  /\ op' = Op(gs, "Resize", termWidth, termHeight)
  /\ resizes' = resizes + 1
  /\ UNCHANGED <<frames, pressed>>

GenNext ==
  \/ NewGameStateStep
  \/ DescendStep
  \/ \E size \in TermSizes : GenResizeStep(size[1], size[2])

GenSpec == GenInit /\ [][GenNext]_vars

(***************************************************************************)
(* The entity methods on their own: TakeDamage and Heal are exported and   *)
(* take any int.  The entity under test is held in the Player field of a   *)
(* GameState literal; the amounts are the ones the game passes, and the    *)
(* largest int.                                                            *)
(***************************************************************************)
EntityKinds ==
  {NewPlayer(0, 0), NewBug(0, 0), NewScopeCreep(0, 0), NewPotion(0, 0)}

Amounts == {0, 1, 2, 3, MaxInt}

EntityInit ==
  /\ \E e \in EntityKinds : gs = [GameStateLiteral(1, 40, 23) EXCEPT !.Player = e]
  /\ op = Op(gs, "Entity", 0, 0)
  /\ frames = 0
  /\ resizes = 0
  /\ pressed = <<>>

TakeDamageStep(dmg) ==
  /\ gs' = [gs EXCEPT !.Player = TakeDamage(gs.Player, dmg)]
  /\ op' = Op(gs, "TakeDamage", dmg, 0)
  /\ UNCHANGED <<frames, resizes, pressed>>

HealStep(amount) ==
  /\ gs' = [gs EXCEPT !.Player = Heal(gs.Player, amount)]
  /\ op' = Op(gs, "Heal", amount, 0)
  /\ UNCHANGED <<frames, resizes, pressed>>

EntityNext ==
  \/ \E dmg \in Amounts : TakeDamageStep(dmg)
  \/ \E amount \in Amounts : HealStep(amount)

EntitySpec == EntityInit /\ [][EntityNext]_vars

(***************************************************************************)
(* The Konami code on its own: the keys Run passes to CheckKonamiCode,     *)
(* typed along a few tapes (the code with any key before it or after it,   *)
(* and the code missed by one key and then typed again), and one walk      *)
(* through the door of the first level at any moment in between.           *)
(***************************************************************************)
KonamiKeys == {"up", "down", "left", "right", "b", "a"}

KeyTapes ==
  {konamiCode \o <<k>> : k \in KonamiKeys}
    \cup {<<k>> \o konamiCode : k \in KonamiKeys}
    \cup {[konamiCode EXCEPT ![i] = k] \o konamiCode : i \in 1..Len(konamiCode), k \in KonamiKeys}

OnTape(typed) ==
  \E tape \in KeyTapes :
    Len(typed) <= Len(tape) /\ SubSeq(tape, 1, Len(typed)) = typed

KonamiInit ==
  /\ gs = NewGameState(1, 40, 23)
  /\ op = Op(gs, "NewGameState", 0, 0)
  /\ frames = 0
  /\ resizes = 0
  /\ pressed = <<>>

KonamiKeyStep(key) ==
  /\ gs.Panic = NoPanic
  /\ OnTape(Append(pressed, key))
  /\ gs' = CheckKonamiCode(gs, key)
  /\ op' = Op(gs, "CheckKonamiCode", 0, 0)
  /\ pressed' = Append(pressed, key)
  /\ UNCHANGED <<frames, resizes>>

KonamiDoorStep ==
  /\ gs.Panic = NoPanic
  /\ gs.Level = 1
  /\ gs' = MovePlayer(gs, gs.DoorX - gs.Player.X, gs.DoorY - gs.Player.Y, 0)
  /\ op' = Op(gs, "MovePlayer", gs.DoorX - gs.Player.X, gs.DoorY - gs.Player.Y)
  /\ UNCHANGED <<frames, resizes, pressed>>

KonamiNext ==
  \/ \E key \in KonamiKeys : KonamiKeyStep(key)
  \/ KonamiDoorStep

KonamiSpec == KonamiInit /\ [][KonamiNext]_vars

(***************************************************************************)
(* A session played after the Konami code has been typed.                  *)
(***************************************************************************)
RECURSIVE typeKeys(_, _)
typeKeys(g, typed) ==
  IF typed = <<>> THEN g
  ELSE With([g1 \in {CheckKonamiCode(g, Head(typed))} |-> typeKeys(g1, Tail(typed))])

CheatInit ==
  /\ \E seed \in PlaySeeds :
       gs = With([g \in {NewGameState(seed, 40, 23)} |-> typeKeys(g, konamiCode)])
  /\ op = Op(gs, "CheckKonamiCode", 0, 0)
  /\ frames = 0
  /\ resizes = 0
  /\ pressed = konamiCode

CheatNext ==
  \/ Render
  \/ \E d \in Dirs : \E mapOrder \in MapOrdersFor(gs, d[1], d[2]) :
       MovePlayerStep(d[1], d[2], mapOrder)

CheatSpec == CheatInit /\ [][CheatNext]_vars

(***************************************************************************)
(* A session in the arena, walked to the right and down (the keys l, n and *)
(* j of Run): the way from the start to the corner where the potions lie.  *)
(***************************************************************************)
ArenaDirs == {<<1, 0>>, <<1, 1>>, <<0, 1>>}

ArenaInit ==
  /\ gs = NewGameState(2, 40, 23)
  /\ op = Op(gs, "NewGameState", 0, 0)
  /\ frames = 0
  /\ resizes = 0
  /\ pressed = <<>>

ArenaNext ==
  \/ Render
  \/ \E d \in ArenaDirs : \E mapOrder \in MapOrdersFor(gs, d[1], d[2]) :
       MovePlayerStep(d[1], d[2], mapOrder)

ArenaSpec == ArenaInit /\ [][ArenaNext]_vars

(***************************************************************************)
(* MovePlayer called on its own, as the tests of the package call it: a    *)
(* few steps in any of the eight directions from a new session.            *)
(***************************************************************************)
DescentSeeds == {1, 3}

MaxMoves == 2

DescentInit ==
  /\ \E seed \in DescentSeeds : gs = NewGameState(seed, 40, 23)
  /\ op = Op(gs, "NewGameState", 0, 0)
  /\ frames = 0
  /\ resizes = 0
  /\ pressed = <<>>

DescentStep(dx, dy, mapOrder) ==
  /\ gs.Panic = NoPanic
  /\ gs.MoveCount < MaxMoves
  /\ gs' = MovePlayer(gs, dx, dy, mapOrder)
  /\ op' = Op(gs, "MovePlayer", dx, dy)
  /\ UNCHANGED <<frames, resizes, pressed>>

DescentNext ==
  \E i \in 1..Len(Directions) :
    \E mapOrder \in MapOrdersFor(gs, Directions[i][1], Directions[i][2]) :
      DescentStep(Directions[i][1], Directions[i][2], mapOrder)

DescentSpec == DescentInit /\ [][DescentNext]_vars

(***************************************************************************)
(* A session of stream 6 as it arrives on a level below the first with few *)
(* HP left (the player entity is carried from level to level, and only a   *)
(* potion restores HP), and MovePlayer called on it a few times.  On the   *)
(* last level of this stream the door lies on the marker, where the player *)
(* starts.                                                                 *)
(***************************************************************************)
LowHP == 3

RECURSIVE arriveAt(_, _)
arriveAt(g, level) ==
  IF g.Level >= level \/ g.Panic # NoPanic THEN g
  ELSE With([g1 \in {descend(g)} |-> arriveAt(g1, level)])

WoundedInit ==
  /\ \E level \in 2..MaxLevel, hp \in 1..LowHP :
       gs = [arriveAt(NewGameState(6, 40, 23), level) EXCEPT !.Player.HP = hp]
  /\ op = Op(gs, "generateLevel", 0, 0)
  /\ frames = 0
  /\ resizes = 0
  /\ pressed = <<>>

WoundedSpec == WoundedInit /\ [][DescentNext]_vars

(***************************************************************************)
(* The session of Spec on a terminal of 80x43 that may shrink to 40x23     *)
(* before the player goes through the door.                                *)
(***************************************************************************)
ShrinkInit ==
  /\ gs = NewGameState(9, 80, 43)
  /\ op = Op(gs, "NewGameState", 0, 0)
  /\ frames = 0
  /\ resizes = 0
  /\ pressed = <<>>

ShrinkSpec == ShrinkInit /\ [][Next]_vars

(***************************************************************************)
(* checkMergeConflict called on its own, as the tests of the package call  *)
(* it: on the first level of a new session, with or without the Konami     *)
(* code typed and with or without the trap burning already, the player put *)
(* on any walkable tile up to TrapReach from the trap.                     *)
(***************************************************************************)
TrapSeeds == {1, 2, 5, 6}
TrapReach == 3
MaxChecks == 2

\* The session with the player put on the trap tile and burnt once.
trapEntered(g) ==
  checkMergeConflict([g EXCEPT !.Player.X = g.MergeConflictX,
                               !.Player.Y = g.MergeConflictY], 0)

TrapInit ==
  /\ \E seed \in TrapSeeds : \E g0 \in {NewGameState(seed, 40, 23)} :
       \E g1 \in {g0, typeKeys(g0, konamiCode)} :
         \E g \in {g1, trapEntered(g1)} :
           \E dx, dy \in (-TrapReach)..TrapReach :
             /\ IsWalkable(g.Dungeon, g.MergeConflictX + dx, g.MergeConflictY + dy)
             /\ gs = [g EXCEPT !.Player.X = g.MergeConflictX + dx,
                               !.Player.Y = g.MergeConflictY + dy]
  /\ op = Op(gs, "NewGameState", 0, 0)
  /\ frames = 0
  /\ resizes = 0
  /\ pressed = <<>>

CheckMergeConflictStep(mapOrder) ==
  /\ gs.ColorRotation < MaxChecks
  /\ gs' = checkMergeConflict(gs, mapOrder)
  /\ op' = Op(gs, "checkMergeConflict", 0, 0)
  /\ UNCHANGED <<frames, resizes, pressed>>

TrapNext == \E mapOrder \in MapOrdersFor(gs, 0, 0) : CheckMergeConflictStep(mapOrder)

TrapSpec == TrapInit /\ [][TrapNext]_vars

(***************************************************************************)
(* The loop of randomFloorTile attempt by attempt, in the two calls that   *)
(* generateLevel makes first: the one that places the trap and the one     *)
(* that places the first enemy.  Here gs is the session at the call (g),   *)
(* the generator, the attempts made, and the tile returned.  The loop is   *)
(* all the call runs, so a step that is possible is taken in the end.      *)
(***************************************************************************)
\* generateLevel up to its first call of randomFloorTile.
atTrapCall(seed, termWidth, termHeight) ==
  levelDoor(levelDungeon(GameStateLiteral(seed, termWidth, termHeight)))

\* generateLevel up to the call of randomFloorTile for the first enemy.
atSpawnCall(g) ==
  With([trap \in {randomFloorTile(g)} |->
    [g EXCEPT !.MergeConflictX = trap.x, !.MergeConflictY = trap.y,
              !.OnMergeConflict = FALSE, !.RNG = trap.rng, !.Enemies = <<>>]
  ])

FloorTileInit ==
  /\ \E seed \in Seeds, size \in TermSizes :
       \E g0 \in {atTrapCall(seed, size[1], size[2])} :
         \E g \in {g0, atSpawnCall(g0)} :
           gs = [g |-> g, rng |-> g.RNG, attempts |-> 0, returned |-> FALSE,
                 x |-> 0, y |-> 0]
  /\ op = Op(gs.g, "randomFloorTile", 0, 0)
  /\ frames = 0
  /\ resizes = 0
  /\ pressed = <<>>

\* One pass of the loop body with no test of the tile but IsWalkable.
AttemptStepUntested ==
  /\ ~gs.returned
  /\ gs.attempts < MaxAttempts
  /\ Len(gs.g.Dungeon.Rooms) > 0
  /\ \E r1 \in {Advance(gs.rng)} :
       \E room \in {gs.g.Dungeon.Rooms[Intn(gs.rng, Len(gs.g.Dungeon.Rooms)) + 1]} :
         \E x \in {room.X + Intn(r1, room.W)}, y \in {room.Y + Intn(Advance(r1), room.H)} :
           IF IsWalkable(gs.g.Dungeon, x, y)
           THEN gs' = [gs EXCEPT !.rng = AdvanceBy(@, 3), !.returned = TRUE,
                                 !.x = x, !.y = y]
           ELSE gs' = [gs EXCEPT !.rng = AdvanceBy(@, 3), !.attempts = @ + 1]
  /\ op' = [op EXCEPT !.name = "attempt"]
  /\ UNCHANGED <<frames, resizes, pressed>>

\* One pass of the loop body: three draws, and the tests of the tile.
AttemptStep ==
  /\ ~gs.returned
  /\ gs.attempts < MaxAttempts
  /\ Len(gs.g.Dungeon.Rooms) > 0
  /\ \E r1 \in {Advance(gs.rng)} :
       \E room \in {gs.g.Dungeon.Rooms[Intn(gs.rng, Len(gs.g.Dungeon.Rooms)) + 1]} :
         \E x \in {room.X + Intn(r1, room.W)}, y \in {room.Y + Intn(Advance(r1), room.H)} :
           IF /\ IsWalkable(gs.g.Dungeon, x, y)
              /\ ~(gs.g.Player # Nil /\ x = gs.g.Player.X /\ y = gs.g.Player.Y)
              /\ ~(x = gs.g.DoorX /\ y = gs.g.DoorY)
              /\ ~(x = gs.g.MergeConflictX /\ y = gs.g.MergeConflictY)
           THEN gs' = [gs EXCEPT !.rng = AdvanceBy(@, 3), !.returned = TRUE,
                                 !.x = x, !.y = y]
           ELSE gs' = [gs EXCEPT !.rng = AdvanceBy(@, 3), !.attempts = @ + 1]
  /\ op' = [op EXCEPT !.name = "attempt"]
  /\ UNCHANGED <<frames, resizes, pressed>>

\* The loop left without a tile: the grid centre.
ReturnCentreStep ==
  /\ ~gs.returned
  /\ gs.attempts >= MaxAttempts \/ Len(gs.g.Dungeon.Rooms) = 0
  /\ gs' = [gs EXCEPT !.returned = TRUE, !.x = gs.g.Dungeon.Width \div 2,
                      !.y = gs.g.Dungeon.Height \div 2]
  /\ op' = [op EXCEPT !.name = "return"]
  /\ UNCHANGED <<frames, resizes, pressed>>

FloorTileNext ==
  \/ AttemptStep
  \/ ReturnCentreStep

FloorTileSpec == FloorTileInit /\ [][FloorTileNext]_vars /\ WF_vars(FloorTileNext)

(***************************************************************************)
(* The adjacency test on its own: a player and a scope creep on every pair *)
(* of tiles up to PairReach apart, and the two loops of the turn that call *)
(* IsAdjacent, the enemies' attacks and the player's auto-attack.          *)
(***************************************************************************)
PairReach == 3

AdjacencyInit ==
  /\ \E p \in {<<0, 0>>, <<20, 10>>} :
       \E dx, dy \in (-PairReach)..PairReach :
         gs = [GameStateLiteral(1, 40, 23) EXCEPT
                 !.Player = NewPlayer(p[1], p[2]),
                 !.Enemies = <<NewScopeCreep(p[1] + dx, p[2] + dy)>>]
  /\ op = Op(gs, "Entity", 0, 0)
  /\ frames = 0
  /\ resizes = 0
  /\ pressed = <<>>

EnemyAttacksStep ==
  /\ IsAlive(gs.Player)
  /\ gs' = enemyAttacks(gs)
  /\ op' = Op(gs, "enemyAttacks", 0, 0)
  /\ UNCHANGED <<frames, resizes, pressed>>

PlayerAutoAttackStep ==
  /\ IsAlive(gs.Player)
  /\ gs' = playerAutoAttack(gs)
  /\ op' = Op(gs, "playerAutoAttack", 0, 0)
  /\ UNCHANGED <<frames, resizes, pressed>>

AdjacencyNext ==
  \/ EnemyAttacksStep
  \/ PlayerAutoAttackStep

AdjacencySpec == AdjacencyInit /\ [][AdjacencyNext]_vars

(***************************************************************************)
(* The enemies' moves on their own: the body of the loop of moveEnemies,   *)
(* one enemy at a time in the order of gs.Enemies, for a few rounds on the *)
(* first level of a new session.  op.x is the enemy whose turn it was and  *)
(* op.y the round.                                                         *)
(***************************************************************************)
EnemySeeds == {2, 5, 6, 7, 8}

MaxRounds == 3

EnemyInit ==
  /\ \E seed \in EnemySeeds, size \in TermSizes :
       gs = NewGameState(seed, size[1], size[2])
  /\ op = Op(gs, "NewGameState", 0, 0)
  /\ frames = 0
  /\ resizes = 0
  /\ pressed = <<>>

EnemyTurnStep ==
  /\ gs.Panic = NoPanic
  /\ LET i == IF op.x < Len(gs.Enemies) THEN op.x + 1 ELSE 1
         round == IF op.x < Len(gs.Enemies) /\ op.y > 0 THEN op.y ELSE op.y + 1
     IN  /\ round <= MaxRounds
         /\ gs' = moveEnemy(gs, i)
         /\ op' = Op(gs, "moveEnemy", i, round)
  /\ UNCHANGED <<frames, resizes, pressed>>

EnemyNext == EnemyTurnStep

EnemySpec == EnemyInit /\ [][EnemyNext]_vars

(***************************************************************************)
(* The BSP tree on its own: a root node of the size of a grid and a seeded *)
(* generator, Split and CreateRooms called on it as GenerateDungeon calls   *)
(* them, and GenerateDungeon itself.  Here gs is the tree, the generator   *)
(* and the dungeon.                                                        *)
(***************************************************************************)
BSPSizes == {40, 41, 52, 60, 80} \X {20, 21, 27, 40}

BSPInit ==
  /\ \E seed \in Seeds, size \in BSPSizes :
       /\ gs = [node |-> NewBSPNode(0, 0, size[1], size[2]), rng |-> NewSource(seed),
                d |-> Nil]
       /\ op = [name |-> "NewBSPNode", x |-> size[1], y |-> size[2],
                over |-> FALSE, walled |-> FALSE]
  /\ frames = 0
  /\ resizes = 0
  /\ pressed = <<>>

SplitStep ==
  /\ op.name = "NewBSPNode"
  /\ gs' = Split(gs.node, gs.rng, BSPDepth) @@ [d |-> Nil]
  /\ op' = [op EXCEPT !.name = "Split"]
  /\ UNCHANGED <<frames, resizes, pressed>>

CreateRoomsStep ==
  /\ op.name = "Split"
  /\ gs' = CreateRooms(gs.node, gs.rng) @@ [d |-> Nil]
  /\ op' = [op EXCEPT !.name = "CreateRooms"]
  /\ UNCHANGED <<frames, resizes, pressed>>

\* The whole of GenerateDungeon for the same grid and the same seed.
GenerateDungeonStep ==
  /\ op.name = "CreateRooms"
  /\ gs' = [gs EXCEPT !.d = GenerateDungeon(op.x, op.y, NewSource(gs.rng.seed), 0).d]
  /\ op' = [op EXCEPT !.name = "GenerateDungeon"]
  /\ UNCHANGED <<frames, resizes, pressed>>

BSPNext ==
  \/ SplitStep
  \/ CreateRoomsStep
  \/ GenerateDungeonStep

BSPSpec == BSPInit /\ [][BSPNext]_vars

(***************************************************************************)
(* Properties of a session                                                 *)
(***************************************************************************)
Over(g) == g.GameOver \/ g.Victory

\* C1: once GameOver or Victory is true, a MovePlayer call changes no field
\* of the game state, and no operation makes the flag false again.
C1_TerminalIsFrozen ==
  [][ /\ (gs.GameOver => gs'.GameOver)
      /\ (gs.Victory => gs'.Victory)
      /\ (op'.name = "MovePlayer" /\ Over(gs) => gs' = gs) ]_vars

\* A MovePlayer call made after the player escaped through the last door.
C1_Witness == op.name = "MovePlayer" /\ op.over /\ gs.Victory

\* C2: a MovePlayer call whose target tile is a Wall or off the grid leaves
\* every field of the game state as it was.
C2_RejectedMoveIsAtomic ==
  [][ op'.name = "MovePlayer" /\ op'.walled => gs' = gs ]_vars

\* A move into a wall, made while the session was still running.
C2_Witness == op.name = "MovePlayer" /\ op.walled /\ ~op.over

\* C3: a player whose HP has reached 0 is in a session with GameOver set
\* and a death cause recorded in KilledBy.
C3_DeathIsRecorded ==
  (gs.Player # Nil /\ gs.Player.HP = 0) => (gs.GameOver /\ gs.KilledBy # "")

\* C4: from any state of a session, a MovePlayer call has one outcome,
\* whatever order the runtime visits the core-tile map in.
C4_Deterministic ==
  gs.Panic = NoPanic =>
    \A d \in Dirs : \A m1, m2 \in 0..(MapOrders - 1) :
      MovePlayer(gs, d[1], d[2], m1) = MovePlayer(gs, d[1], d[2], m2)

\* C5: drawing a frame changes no field of the game state, the position of
\* the session RNG included.
C5_RenderOwnsNoState ==
  [][ op'.name = "render" => gs' = gs ]_vars

\* C10: IsWalkable is false off the grid, no operation stops with an index
\* out of range, and every tile and visibility cell written lies on the grid.
OffGridMargin == 2

C10_BoundsSafe ==
  /\ gs.Panic # IndexOutOfRange
  /\ gs.Dungeon # Nil =>
       LET d == gs.Dungeon
       IN  /\ \A x \in (-OffGridMargin)..(d.Width + OffGridMargin - 1) :
                \A y \in (-OffGridMargin)..(d.Height + OffGridMargin - 1) :
                  ~InGrid(d, x, y) => ~IsWalkable(d, x, y)
           /\ \A c \in d.Floor \cup d.Doors : InGrid(d, c[1], c[2])
           /\ \A c \in gs.Visible.Cells \cup gs.Explored.Cells :
                InGrid(d, c[1], c[2]) /\ InGrid(gs.Visible, c[1], c[2])

\* Enemies have moved and attacked, and the player has looked around, on a
\* level reached through a door.
C10_Witness ==
  /\ gs.Panic = NoPanic
  /\ gs.Level > 1
  /\ op.name = "MovePlayer"
  /\ gs.Player.HP < gs.Player.MaxHP
  /\ gs.Visible.Cells # {}

\* The entities of a session: the player, the enemies and the potions.
EntitiesOf(g) ==
  (IF g.Player = Nil THEN {} ELSE {g.Player})
    \cup {g.Enemies[i] : i \in 1..Len(g.Enemies)}
    \cup {g.Potions[i] : i \in 1..Len(g.Potions)}

\* C11: whatever non-negative amounts TakeDamage and Heal are called with,
\* every entity keeps 0 <= HP <= MaxHP.
C11_HPClamped ==
  \A e \in EntitiesOf(gs) : 0 <= e.HP /\ e.HP <= e.MaxHP

\* C12: while Invulnerable is true no MovePlayer call, whatever it meets
\* (enemy attacks, the trap, the marker), lowers the player's HP.
C12_InvulnerableTakesNoDamage ==
  [][ (gs.Invulnerable /\ gs.Player # Nil /\ gs'.Player # Nil)
        => gs'.Player.HP >= gs.Player.HP ]_vars

\* An invulnerable player has moved and stands next to a living enemy that
\* would have struck.
C12_Witness ==
  /\ gs.Invulnerable
  /\ op.name = "MovePlayer" /\ ~op.over /\ ~op.walled
  /\ \E i \in 1..Len(gs.Enemies) :
       IsAlive(gs.Enemies[i]) /\ IsAdjacent(gs.Player, gs.Enemies[i])

\* C13: Invulnerable is true exactly when some ten consecutive keys typed
\* so far are the Konami code (so it turns true at the tenth key of the first
\* match, for no other sequence, and stays true, level transitions
\* included), and the stored history never holds more than ten keys.
C13_KonamiExact ==
  /\ Len(gs.KonamiSequence) <= 10
  /\ gs.Invulnerable <=>
       \E i \in 10..Len(pressed) : SubSeq(pressed, i - 9, i) = konamiCode

\* The code typed again after a miss, on the second level.
C13_Witness ==
  gs.Invulnerable /\ gs.Level > 1 /\ Len(pressed) > 10

\* The potions lying on tile (x, y).
PotionsAt(g, x, y) ==
  {i \in 1..Len(g.Potions) : g.Potions[i].X = x /\ g.Potions[i].Y = y}

\* The living enemies standing on tile (x, y).
EnemiesAt(g, x, y) ==
  {i \in 1..Len(g.Enemies) :
     IsAlive(g.Enemies[i]) /\ g.Enemies[i].X = x /\ g.Enemies[i].Y = y}

\* A MovePlayer call that takes the player onto the tile (dx, dy) away:
\* the session is running, the tile is walkable and no living enemy holds it.
StepsOnto(g, o) ==
  /\ o.name = "MovePlayer" /\ ~o.over /\ ~o.walled
  /\ EnemiesAt(g, g.Player.X + o.x, g.Player.Y + o.y) = {}

\* C14: after a MovePlayer call that moves the player onto a tile holding a
\* potion, no potion remains on the player's tile.
C14_PotionPickup ==
  [][ (StepsOnto(gs, op') /\ gs'.Panic = NoPanic /\ gs'.Level = gs.Level
        /\ PotionsAt(gs, gs.Player.X + op'.x, gs.Player.Y + op'.y) # {})
      => PotionsAt(gs', gs'.Player.X, gs'.Player.Y) = {} ]_vars

\* A MovePlayer call that bumps into an enemy: the session is running and
\* a living enemy holds the walkable target tile.
Bumps(g, o) ==
  /\ o.name = "MovePlayer" /\ ~o.over /\ ~o.walled
  /\ EnemiesAt(g, g.Player.X + o.x, g.Player.Y + o.y) # {}

\* C15: MoveCount is 0 in a new session, a MovePlayer call that takes the
\* player onto another tile adds exactly 1 to it, and a call blocked by a
\* wall, a bump attack, a call in a finished session and every other
\* operation leave it as it was.
C15_MoveCount ==
  [][ /\ op.name = "NewGameState" => gs.MoveCount = 0
      /\ gs'.Panic = NoPanic =>
            gs'.MoveCount = gs.MoveCount + (IF StepsOnto(gs, op') THEN 1 ELSE 0) ]_vars

\* Moves have been counted, an enemy has been killed, and the last call
\* ran into a wall.
C15_Witness ==
  /\ op.name = "MovePlayer" /\ op.walled
  /\ gs.MoveCount >= 2
  /\ gs.EnemiesKilled >= 1

\* C16: a MovePlayer call that bumps into a living enemy leaves the player
\* where it stood, takes Player.Damage HP (floored at 0) from the enemy
\* struck and no HP from any other enemy, raises EnemiesKilled by 1 exactly
\* when the enemy struck is dead afterwards, resolves no pickup, hazard or
\* door, and checks the player's death after the enemy phase.
C16_BumpAttack ==
  [][ (Bumps(gs, op') /\ gs'.Panic = NoPanic) =>
        LET bumped == EnemiesAt(gs, gs.Player.X + op'.x, gs.Player.Y + op'.y)
            i == CHOOSE k \in bumped : \A j \in bumped : k <= j
            struck(j) == gs'.Enemies[j].HP = Max2(gs.Enemies[j].HP - gs.Player.Damage, 0)
        IN  /\ gs'.Player.X = gs.Player.X /\ gs'.Player.Y = gs.Player.Y
            /\ struck(i)
            /\ \A j \in 1..Len(gs.Enemies) : j # i => gs'.Enemies[j].HP = gs.Enemies[j].HP
            /\ gs'.EnemiesKilled = gs.EnemiesKilled + (IF IsAlive(gs'.Enemies[i]) THEN 0 ELSE 1)
            /\ gs'.Potions = gs.Potions /\ gs'.MoveCount = gs.MoveCount
            /\ gs'.Level = gs.Level /\ gs'.Victory = gs.Victory
            /\ gs'.OnMergeConflict = gs.OnMergeConflict
            /\ gs'.MergeConflictTriggered = gs.MergeConflictTriggered
            /\ gs'.MergeAffectedTiles = gs.MergeAffectedTiles
            /\ gs'.GameOver = ~IsAlive(gs'.Player) ]_vars

\* A MovePlayer call that takes the player onto the door tile.
EntersDoor(g, o) ==
  /\ StepsOnto(g, o)
  /\ g.Player.X + o.x = g.DoorX /\ g.Player.Y + o.y = g.DoorY

\* C17: a step onto the door raises Level by exactly 1 below MaxLevel and
\* leaves the player at the centre of the first room of a new level, and
\* sets Victory on the last level, with no attack on an enemy in either
\* case; no other step changes Level or sets Victory, Level is 1 in a new
\* session and never exceeds MaxLevel.
C17_DoorResolution ==
  [][ /\ op.name = "NewGameState" => gs.Level = 1
      /\ gs'.Level <= MaxLevel
      /\ (EntersDoor(gs, op') /\ gs'.Panic = NoPanic) =>
            /\ gs'.EnemiesKilled = gs.EnemiesKilled
            /\ IF gs.Level < gs.MaxLevel
               THEN /\ gs'.Level = gs.Level + 1
                    /\ ~gs'.Victory
                    /\ Len(gs'.Dungeon.Rooms) > 0
                    /\ <<gs'.Player.X, gs'.Player.Y>> = Center(gs'.Dungeon.Rooms[1])
               ELSE /\ gs'.Victory
                    /\ gs'.Level = gs.Level
                    /\ gs'.Enemies = gs.Enemies
      /\ ~EntersDoor(gs, op') =>
            /\ gs'.Level = gs.Level
            /\ gs'.Victory = gs.Victory ]_vars

\* C18: a step through a door below the last level keeps the player's HP,
\* MaxHP and Damage, the kill counter, the Invulnerable flag and the seed of
\* the RNG, whose position moves on; the move counter has counted the step;
\* the explored grid holds nothing but what is visible from the new start,
\* both grids have the size of the new dungeon, and every enemy is new.
C18_TransitionFrame ==
  [][ (EntersDoor(gs, op') /\ gs.Level < gs.MaxLevel /\ gs'.Panic = NoPanic) =>
        /\ gs'.Player.HP = gs.Player.HP
        /\ gs'.Player.MaxHP = gs.Player.MaxHP
        /\ gs'.Player.Damage = gs.Player.Damage
        /\ gs'.EnemiesKilled = gs.EnemiesKilled
        /\ gs'.MoveCount = gs.MoveCount + 1
        /\ gs'.Invulnerable = gs.Invulnerable
        /\ gs'.RNG.seed = gs.RNG.seed /\ gs'.RNG.pos > gs.RNG.pos
        /\ gs'.Explored = gs'.Visible
        /\ gs'.Visible.Width = gs'.Dungeon.Width /\ gs'.Visible.Height = gs'.Dungeon.Height
        /\ \A i \in 1..Len(gs'.Enemies) : gs'.Enemies[i].HP = gs'.Enemies[i].MaxHP
        /\ \A i \in 1..Len(gs'.Potions) : gs'.Potions[i].Type = EntityPotion ]_vars

\* A wounded player has come through a door after several moves.
C18_Witness ==
  /\ op.name = "MovePlayer" /\ gs.Level > 1
  /\ gs.Message = "You descend deeper into the dungeon..."
  /\ gs.Player.HP < gs.Player.MaxHP
  /\ gs.MoveCount >= 3

\* C19: right after a step through a door the trap of the new level is
\* untriggered: OnMergeConflict and MergeConflictTriggered are false and no
\* spread or affected tile is left from the level before.
C19_HazardPerLevel ==
  [][ (EntersDoor(gs, op') /\ gs.Level < gs.MaxLevel /\ gs'.Panic = NoPanic) =>
        /\ ~gs'.OnMergeConflict
        /\ ~gs'.MergeConflictTriggered
        /\ gs'.MergeConflictSpread = <<>>
        /\ gs'.MergeAffectedTiles = {} ]_vars

\* The damage of the enemies i..Len that, alive and next to the player in
\* g, have struck at the end of the call that left g.
RECURSIVE BlowsFrom(_, _)
BlowsFrom(g, i) ==
  IF i > Len(g.Enemies) THEN 0
  ELSE (IF IsAlive(g.Enemies[i]) /\ IsAdjacent(g.Player, g.Enemies[i])
        THEN g.Enemies[i].Damage ELSE 0) + BlowsFrom(g, i + 1)

\* The player's HP after a call that went from g to h with the move o, if
\* the trap takes burn HP in it: a potion on the target tile first, then the
\* marker, the trap and the enemies' blows, never below 0.
HPAfter(g, o, h, burn) ==
  LET x == g.Player.X + o.x
      y == g.Player.Y + o.y
      stepped == StepsOnto(g, o)
      healed == IF stepped /\ PotionsAt(g, x, y) # {}
                THEN Min2(g.Player.HP + PotionHeal, g.Player.MaxHP)
                ELSE g.Player.HP
      marked == IF stepped /\ x = g.MergeMarkerX /\ y = g.MergeMarkerY
                THEN MarkerDamage ELSE 0
  IN  Max2(healed - marked - burn - BlowsFrom(h, 1), 0)

\* A call by a vulnerable player that did not go through the door and ends
\* on the trap tile of the level.
EndsOnTrap(g, h) ==
  /\ h.Panic = NoPanic /\ ~g.Invulnerable
  /\ h.Level = g.Level /\ (h.Victory <=> g.Victory)
  /\ h.Player.X = h.MergeConflictX /\ h.Player.Y = h.MergeConflictY

TakesTurn(g, o, h) ==
  /\ Bumps(g, o) \/ (StepsOnto(g, o) /\ ~EntersDoor(g, o))
  /\ h.Panic = NoPanic

\* The enemies the player's attack of the call o strikes, as the call finds
\* them: the enemy bumped into, or every living enemy next to the tile the
\* player steps onto.
Struck(g, o) ==
  LET x == g.Player.X + o.x
      y == g.Player.Y + o.y
      bumped == EnemiesAt(g, x, y)
  IN  IF bumped # {} THEN {CHOOSE i \in bumped : \A j \in bumped : i <= j}
      ELSE {i \in 1..Len(g.Enemies) :
              /\ IsAlive(g.Enemies[i])
              /\ IsAdjacent([X |-> x, Y |-> y], g.Enemies[i])}

\* The HP of enemy i once the player's attack of the call o is resolved.
HPStruck(g, o, i) ==
  IF i \in Struck(g, o) THEN Max2(g.Enemies[i].HP - g.Player.Damage, 0)
  ELSE g.Enemies[i].HP

\* C26: in a MovePlayer call that consumes a turn the player's attack comes
\* first (it strikes the enemies where the call found them and counts its
\* kills), the enemies move next, the enemies' attacks come after the moves
\* (the player loses the damage of the enemies alive and adjacent where the
\* call left them), and the death check comes last; an enemy the attack has
\* brought to 0 HP stays where it was and takes no part in the damage, in
\* that call and in every later one.
C26_TurnOrder ==
  [][ /\ (TakesTurn(gs, op', gs') /\ ~gs.Invulnerable) =>
            /\ \A i \in 1..Len(gs.Enemies) :
                 /\ gs'.Enemies[i].HP \in {HPStruck(gs, op', i),
                                           Max2(HPStruck(gs, op', i) - 1, 0)}
                 /\ HPStruck(gs, op', i) = 0 =>
                      /\ gs'.Enemies[i].X = gs.Enemies[i].X
                      /\ gs'.Enemies[i].Y = gs.Enemies[i].Y
            /\ gs'.EnemiesKilled = gs.EnemiesKilled
                 + Cardinality({i \in Struck(gs, op') : HPStruck(gs, op', i) = 0})
            /\ gs'.Player.HP =
                 HPAfter(gs, op', gs',
                         IF StepsOnto(gs, op')
                            /\ gs'.Player.X = gs'.MergeConflictX
                            /\ gs'.Player.Y = gs'.MergeConflictY
                         THEN 1 ELSE 0)
            /\ gs'.GameOver = ~IsAlive(gs'.Player)
      /\ (gs'.Level = gs.Level /\ gs'.Panic = NoPanic) =>
            \A i \in 1..Len(gs.Enemies) :
              ~IsAlive(gs.Enemies[i]) => gs'.Enemies[i] = gs.Enemies[i] ]_vars

\* After a move the player stands next to an enemy it has killed and next
\* to a living one that has struck back.
C26_Witness ==
  /\ op.name = "MovePlayer" /\ ~op.over /\ ~op.walled
  /\ ~gs.GameOver /\ gs.Player.HP < gs.Player.MaxHP
  /\ gs.EnemiesKilled >= 1
  /\ \E i, j \in 1..Len(gs.Enemies) :
       /\ ~IsAlive(gs.Enemies[i]) /\ IsAdjacent(gs.Player, gs.Enemies[i])
       /\ IsAlive(gs.Enemies[j]) /\ IsAdjacent(gs.Player, gs.Enemies[j])

\* A step onto the marker by a vulnerable player whose HP, a potion on the
\* tile counted, does not exceed the marker's damage: the player's HP is 0
\* when triggerMergeConflict returns, before the turn is processed.
DiesOnMarker(g, o) ==
  /\ StepsOnto(g, o) /\ ~g.Invulnerable
  /\ g.Player.X + o.x = g.MergeMarkerX /\ g.Player.Y + o.y = g.MergeMarkerY
  /\ HPAfter(g, o, [g EXCEPT !.Enemies = <<>>], 0) = 0

\* C27: an enemy with HP 0 never changes position and never damages the
\* player; a player whose HP has reached 0 never changes position and never
\* damages an enemy afterwards, the rest of the MovePlayer call in which
\* the HP reached 0 included (an enemy loses 2 HP or more, or is counted as
\* killed, only by the player's blow).
C27_DeadIsInert ==
  [][ (gs.Player # Nil /\ gs'.Panic = NoPanic /\ gs'.Level = gs.Level) =>
        /\ \A i \in 1..Len(gs.Enemies) :
             ~IsAlive(gs.Enemies[i]) => gs'.Enemies[i] = gs.Enemies[i]
        /\ (\A i \in 1..Len(gs'.Enemies) :
              IsAdjacent(gs'.Player, gs'.Enemies[i]) => ~IsAlive(gs'.Enemies[i]))
             => gs'.Player.HP >= gs.Player.HP
                  - (IF gs'.Player.X = gs'.MergeConflictX /\ gs'.Player.Y = gs'.MergeConflictY
                     THEN 1 ELSE 0)
                  - (IF gs'.Player.X = gs'.MergeMarkerX /\ gs'.Player.Y = gs'.MergeMarkerY
                     THEN MarkerDamage ELSE 0)
        /\ ~IsAlive(gs.Player) =>
             /\ gs'.Player = gs.Player
             /\ gs'.Enemies = gs.Enemies
        /\ DiesOnMarker(gs, op') =>
             /\ gs'.EnemiesKilled = gs.EnemiesKilled
             /\ \A i \in 1..Len(gs.Enemies) :
                  gs'.Enemies[i].HP >= gs.Enemies[i].HP - 1 ]_vars

Sign(v) == IF v > 0 THEN 1 ELSE IF v < 0 THEN -1 ELSE 0

\* Every tile sampled on the segment from (x1, y1) to (x2, y2), the far end
\* included, is walkable.
Sees(g, x1, y1, x2, y2) ==
  \A k \in 1..Max2(abs(x2 - x1), abs(y2 - y1)) :
    IsWalkable(g.Dungeon, LineCell(x1, y1, x2, y2, k)[1], LineCell(x1, y1, x2, y2, k)[2])

\* The tile c is free for enemy i: walkable, not the player's tile and not
\* the tile of another living enemy.
FreeFor(g, i, c) ==
  /\ IsWalkable(g.Dungeon, c[1], c[2])
  /\ c # <<g.Player.X, g.Player.Y>>
  /\ \A j \in 1..Len(g.Enemies) :
       (j # i /\ IsAlive(g.Enemies[j])) => c # <<g.Enemies[j].X, g.Enemies[j].Y>>

\* Where the turn of enemy i takes it: the first free tile among the step
\* towards the player on both axes, the step on the x axis alone and the
\* step on the y axis alone, if the enemy is alive and sees the player; its
\* own tile otherwise.
ChaseTarget(g, i) ==
  LET e == g.Enemies[i]
      sx == Sign(g.Player.X - e.X)
      sy == Sign(g.Player.Y - e.Y)
      cands == << <<e.X + sx, e.Y + sy>>, <<e.X + sx, e.Y>>, <<e.X, e.Y + sy>> >>
      open == {k \in 1..3 : cands[k] # <<e.X, e.Y>> /\ FreeFor(g, i, cands[k])}
  IN  IF IsAlive(e) /\ Sees(g, e.X, e.Y, g.Player.X, g.Player.Y) /\ open # {}
      THEN cands[CHOOSE k \in open : \A m \in open : k <= m]
      ELSE <<e.X, e.Y>>

\* C28: in its turn of moveEnemies a living enemy changes position only if
\* every tile sampled on the segment to the player is walkable, and then
\* moves to the first free tile among the diagonal, the horizontal and the
\* vertical step towards the player (free: walkable, not the player's tile,
\* not held by another living enemy); otherwise it stays; it moves at most
\* one tile, never further from the player, and nothing else moves.
C28_EnemyChase ==
  [][ op'.name = "moveEnemy" =>
        LET i == op'.x
            e == gs.Enemies[i]
            moved == gs'.Enemies[i]
        IN  /\ <<moved.X, moved.Y>> = ChaseTarget(gs, i)
            /\ abs(moved.X - e.X) <= 1 /\ abs(moved.Y - e.Y) <= 1
            /\ DistanceTo(moved, gs.Player) <= DistanceTo(e, gs.Player)
            /\ (~IsAlive(e) \/ ~Sees(gs, e.X, e.Y, gs.Player.X, gs.Player.Y))
                 => moved = e
            /\ \A j \in 1..Len(gs.Enemies) : j # i => gs'.Enemies[j] = gs.Enemies[j]
            /\ gs'.Player = gs.Player ]_vars

\* In the second round or later an enemy has had its turn while one living
\* enemy stands next to the player and another does not see the player.
C28_Witness ==
  /\ op.name = "moveEnemy" /\ op.y >= 2
  /\ \E i, j \in 1..Len(gs.Enemies) :
       /\ IsAlive(gs.Enemies[i]) /\ IsAdjacent(gs.Enemies[i], gs.Player)
       /\ IsAlive(gs.Enemies[j])
       /\ ~Sees(gs, gs.Enemies[j].X, gs.Enemies[j].Y, gs.Player.X, gs.Player.Y)

\* The kind of the first enemy among i..Len whose blow, the enemies striking
\* in the order of the list where the call left them, brings a player of hp
\* HP to 0; "" if none does.
RECURSIVE KillerFrom(_, _, _)
KillerFrom(h, i, hp) ==
  IF i > Len(h.Enemies) THEN ""
  ELSE IF IsAlive(h.Enemies[i]) /\ IsAdjacent(h.Player, h.Enemies[i])
       THEN IF hp <= h.Enemies[i].Damage THEN h.Enemies[i].Type
            ELSE KillerFrom(h, i + 1, hp - h.Enemies[i].Damage)
       ELSE KillerFrom(h, i + 1, hp)

\* The source whose damage brings the player's HP from a positive value to
\* 0 in the call o that went from g to h: the marker, the trap, or the
\* first enemy whose blow does; "" if the player survives.
Killer(g, o, h) ==
  LET hp == HPAfter(g, o, [h EXCEPT !.Enemies = <<>>], 0)
      burn == IF /\ StepsOnto(g, o)
                 /\ h.Player.X = h.MergeConflictX /\ h.Player.Y = h.MergeConflictY
              THEN 1 ELSE 0
  IN  IF hp = 0 THEN "marker"
      ELSE IF hp <= burn THEN "merge_conflict"
      ELSE KillerFrom(h, 1, hp - burn)

\* C29: when a MovePlayer call sets GameOver, KilledBy names the source
\* whose damage took the player's HP from a positive value to 0: "bug",
\* "scope_creep" or "merge_conflict"; damage dealt later in the turn, the HP
\* being 0 already, does not change it.
C29_KilledBy ==
  [][ (TakesTurn(gs, op', gs') /\ ~gs.Invulnerable /\ gs'.GameOver
        /\ Killer(gs, op', gs') # "marker")
      => /\ gs'.KilledBy \in {"bug", "scope_creep", "merge_conflict"}
         /\ gs'.KilledBy = Killer(gs, op', gs') ]_vars

\* The grid a level is generated on for a terminal of the given size.
GridFor(termWidth, termHeight) ==
  <<Max2(termWidth, MinWidth), Max2(termHeight - UIRows, MinHeight)>>

\* C24: Resize changes TermWidth and TermHeight and nothing else (the
\* dungeon, both grids, the entities, the counters and the flags stay), and
\* the dungeon changes size only when the next level is generated, for the
\* terminal size stored then.
C24_ResizeFrame ==
  [][ /\ op'.name = "Resize" =>
            gs' = [gs EXCEPT !.TermWidth = op'.x, !.TermHeight = op'.y]
      /\ gs'.Panic = NoPanic =>
            IF EntersDoor(gs, op') /\ gs.Level < gs.MaxLevel
            THEN /\ <<gs'.Dungeon.Width, gs'.Dungeon.Height>>
                      = GridFor(gs.TermWidth, gs.TermHeight)
                 /\ <<gs'.Visible.Width, gs'.Visible.Height>>
                      = <<gs'.Dungeon.Width, gs'.Dungeon.Height>>
            ELSE /\ gs'.Dungeon.Width = gs.Dungeon.Width
                 /\ gs'.Dungeon.Height = gs.Dungeon.Height ]_vars

\* The terminal was resized on the first level, and the second level has
\* been generated for the new size.
C24_Witness ==
  /\ resizes = 1 /\ op.name = "MovePlayer" /\ gs.Level = 2
  /\ <<gs.Dungeon.Width, gs.Dungeon.Height>> = <<80, 40>>

SeenFrom(g) ==
  UNION {castRay(g, g.Player.X, g.Player.Y, angle).cells : angle \in Angles}

\* C32: the Visible and Explored grids have the dimensions of the dungeon,
\* every visible tile is explored, a step that stays on the level forgets no
\* explored tile, and a step that changes the Visible grid leaves in it
\* exactly the tiles seen from the player's tile, none of those seen before.
C32_FogOfWar ==
  /\ [](gs.Dungeon # Nil =>
          /\ gs.Visible.Width = gs.Dungeon.Width
          /\ gs.Visible.Height = gs.Dungeon.Height
          /\ gs.Explored.Width = gs.Dungeon.Width
          /\ gs.Explored.Height = gs.Dungeon.Height
          /\ gs.Visible.Cells \subseteq gs.Explored.Cells
          /\ \A c \in gs.Explored.Cells : InGrid(gs.Dungeon, c[1], c[2]))
  /\ [][/\ gs'.Level = gs.Level => gs.Explored.Cells \subseteq gs'.Explored.Cells
        /\ (gs'.Visible # gs.Visible /\ gs'.Player # Nil) =>
             gs'.Visible.Cells = SeenFrom(gs')]_vars

\* The player has moved on the level and remembers tiles no longer in sight.
C32_Witness ==
  /\ op.name = "MovePlayer"
  /\ gs.Player # Nil
  /\ gs.Visible.Cells = SeenFrom(gs)
  /\ gs.Visible.Cells # gs.Explored.Cells
  /\ gs.Visible.Cells # {}

\* The tile a ray at the given angle samples at the given distance from
\* the player.
Sample(g, angle, dist) ==
  <<RayCoord(g.Player.X, RayDir[angle][1], dist),
    RayCoord(g.Player.Y, RayDir[angle][2], dist)>>

\* Whether the ray stops at the sample: it lies off the grid or is a Wall.
StopsRay(g, c) == ~InGrid(g.Dungeon, c[1], c[2]) \/ TileAt(g.Dungeon, c[1], c[2]) = TileWall

\* Whether the ray gets as far as taking the sample at the given distance.
Sampled(g, angle, dist) ==
  \A j \in 0..(dist - 1) : ~StopsRay(g, Sample(g, angle, j))

Chebyshev(a, b) == Max2(abs(a[1] - b[1]), abs(a[2] - b[2]))

\* C33: every ray updateVisibility casts advances in unit steps, the tiles
\* of two consecutive samples being equal or 8-adjacent; it marks nothing
\* past its first Wall; and no tile farther than VisionRadius (Chebyshev)
\* from the player is marked visible.
C33_RayWalking ==
  (gs.Dungeon # Nil /\ gs.Player # Nil /\ gs.Panic = NoPanic) =>
    \A angle \in Angles :
      /\ \A dist \in 1..VisionRadius :
           Sampled(gs, angle, dist) =>
             Chebyshev(Sample(gs, angle, dist - 1), Sample(gs, angle, dist)) <= 1
      /\ castRay(gs, gs.Player.X, gs.Player.Y, angle).cells
           = {Sample(gs, angle, dist) :
                dist \in {k \in 0..VisionRadius :
                            /\ Sampled(gs, angle, k)
                            /\ InGrid(gs.Dungeon, Sample(gs, angle, k)[1],
                                      Sample(gs, angle, k)[2])}}
      /\ \A c \in castRay(gs, gs.Player.X, gs.Player.Y, angle).cells :
           Chebyshev(c, <<gs.Player.X, gs.Player.Y>>) <= VisionRadius

\* C34: GameOver and Victory are never both true, and a MovePlayer call in
\* which the player's HP reaches 0 neither sets Victory nor advances Level.
C34_ExclusiveOutcomes ==
  [][ /\ ~(gs'.GameOver /\ gs'.Victory)
      /\ (op'.name = "MovePlayer" /\ gs.Player # Nil /\ gs'.Player # Nil
            /\ gs.Player.HP > 0 /\ gs'.Player.HP = 0)
           => (gs'.Victory = gs.Victory /\ gs'.Level = gs.Level) ]_vars

\* C35: whenever a MovePlayer call returns, GameOver is true if and only if
\* the player's HP is 0.
C35_GameOverIffDead ==
  (op.name = "MovePlayer" /\ gs.Panic = NoPanic /\ gs.Player # Nil) =>
    (gs.GameOver <=> gs.Player.HP = 0)

\* A MovePlayer call has taken the player's last HP.
C35_Witness ==
  /\ op.name = "MovePlayer"
  /\ ~op.over
  /\ gs.Panic = NoPanic
  /\ gs.GameOver
  /\ gs.Player.HP = 0

\* C36: no two living enemies stand on the same tile, and no living enemy
\* stands on the player's tile.
C36_OneEntityPerTile ==
  (gs.Dungeon # Nil /\ gs.Player # Nil /\ gs.Panic = NoPanic) =>
    /\ \A i, j \in 1..Len(gs.Enemies) :
         (i # j /\ IsAlive(gs.Enemies[i]) /\ IsAlive(gs.Enemies[j]))
           => <<gs.Enemies[i].X, gs.Enemies[i].Y>> # <<gs.Enemies[j].X, gs.Enemies[j].Y>>
    /\ \A i \in 1..Len(gs.Enemies) :
         IsAlive(gs.Enemies[i])
           => <<gs.Enemies[i].X, gs.Enemies[i].Y>> # <<gs.Player.X, gs.Player.Y>>

\* The enemies whose HP a step takes from a positive value to 0.
DiedIn(g, h) ==
  {i \in 1..Len(g.Enemies) : g.Enemies[i].HP > 0 /\ h.Enemies[i].HP = 0}

\* C38: EnemiesKilled never decreases, and every step adds to it the number
\* of enemies whose HP the step takes from a positive value to 0 (none when
\* the step generates a level), so that it equals the number of such
\* enemies over all levels played so far.
C38_KillCounter ==
  [][ (gs.Dungeon # Nil /\ gs'.Panic = NoPanic) =>
        /\ gs'.EnemiesKilled >= gs.EnemiesKilled
        /\ gs'.EnemiesKilled = gs.EnemiesKilled +
             (IF gs'.Level = gs.Level /\ Len(gs'.Enemies) = Len(gs.Enemies)
              THEN Cardinality(DiedIn(gs, gs')) ELSE 0) ]_vars

OnTrap(g) == g.Player.X = g.MergeConflictX /\ g.Player.Y = g.MergeConflictY

\* C39: after checkMergeConflict, OnMergeConflict is true when the player
\* stands on the trap tile, invulnerable or not, and false when the player
\* is outside the fire area (the 5x3 core and the spread tiles); and the
\* call leaves the HP of a player who is not on the trap tile as it was.
C39_TrapFlag ==
  [][ op'.name = "checkMergeConflict" =>
        /\ OnTrap(gs) => gs'.OnMergeConflict
        /\ ~isPlayerInMergeConflictArea(gs') => ~gs'.OnMergeConflict
        /\ ~OnTrap(gs) => gs'.Player.HP = gs.Player.HP ]_vars

\* An invulnerable player has been burning on the trap tile, unharmed.
C39_Witness ==
  /\ op.name = "checkMergeConflict"
  /\ gs.Invulnerable
  /\ OnTrap(gs)
  /\ gs.OnMergeConflict
  /\ gs.ColorRotation = MaxChecks
  /\ gs.Player.HP = gs.Player.MaxHP

(***************************************************************************)
(* Properties of the generated levels                                      *)
(***************************************************************************)
Neighbours4(c) ==
  {<<c[1] + 1, c[2]>>, <<c[1] - 1, c[2]>>, <<c[1], c[2] + 1>>, <<c[1], c[2] - 1>>}

\* The tiles a walk of 4-neighbour steps over walkable tiles reaches.
RECURSIVE Flood(_, _, _)
Flood(d, seen, frontier) ==
  IF frontier = {} THEN seen
  ELSE
    LET next == {n \in UNION {Neighbours4(c) : c \in frontier} :
                   IsWalkable(d, n[1], n[2])} \ seen
    IN  Flood(d, seen \cup next, next)

Reachable(d, start) ==
  IF IsWalkable(d, start[1], start[2]) THEN Flood(d, {start}, {start}) ELSE {}

LastRoom(d) == d.Rooms[Len(d.Rooms)]

StrictlyInside(room, x, y) ==
  /\ x > room.X /\ x < room.X + room.W - 1
  /\ y > room.Y /\ y < room.Y + room.H - 1

C7_OneDoorInLastRoom ==
  (gs.Dungeon # Nil /\ gs.Panic = NoPanic) =>
    /\ gs.Dungeon.Doors = {<<gs.DoorX, gs.DoorY>>}
    /\ TileAt(gs.Dungeon, gs.DoorX, gs.DoorY) = TileDoor
    /\ Len(gs.Dungeon.Rooms) > 0
    /\ StrictlyInside(LastRoom(gs.Dungeon), gs.DoorX, gs.DoorY)

\* C8: the first dungeon of a session on an 80x43 terminal has between 5
\* and 16 rooms, and its door lies within the last room.
C8_RoomCount ==
  (op.name = "NewGameState" /\ gs.Dungeon.Width = 80 /\ gs.Dungeon.Height = 40) =>
    /\ Len(gs.Dungeon.Rooms) >= 5
    /\ Len(gs.Dungeon.Rooms) <= 16
    /\ Contains(LastRoom(gs.Dungeon), gs.DoorX, gs.DoorY)

\* C9: whatever the terminal size, a level is generated on a grid of at
\* least 40x20 without a runtime failure, and the player stands on a
\* walkable tile, the centre of the first room.
C9_GenerationSucceeds ==
  gs.Dungeon # Nil =>
    /\ gs.Panic = NoPanic
    /\ gs.Dungeon.Width >= MinWidth /\ gs.Dungeon.Height >= MinHeight
    /\ gs.Player # Nil
    /\ IsWalkable(gs.Dungeon, gs.Player.X, gs.Player.Y)
    /\ Len(gs.Dungeon.Rooms) > 0
    /\ <<gs.Player.X, gs.Player.Y>> = Center(gs.Dungeon.Rooms[1])

\* A level has been generated and the session has not stopped in it.
Generated(g) == g.Dungeon # Nil /\ g.Panic = NoPanic

\* C21: after every level generation the trap tile (MergeConflictX,
\* MergeConflictY) is walkable, is not the player's tile and is not the
\* door position.
C21_TrapPlacement ==
  Generated(gs) =>
    /\ IsWalkable(gs.Dungeon, gs.MergeConflictX, gs.MergeConflictY)
    /\ <<gs.MergeConflictX, gs.MergeConflictY>> # <<gs.Player.X, gs.Player.Y>>
    /\ <<gs.MergeConflictX, gs.MergeConflictY>> # <<gs.DoorX, gs.DoorY>>

\* C22: right after level L is generated there are exactly 3 + 2*L enemies,
\* all alive and each a new Bug (HP 1, damage 1) or a new Scope Creep (HP 3,
\* damage 2), and 2 + L or 3 + L potions.
C22_SpawnCounts ==
  (Generated(gs) /\ gs.Level >= 1 /\ gs.Level <= MaxLevel) =>
    /\ Len(gs.Enemies) = 3 + 2 * gs.Level
    /\ \A i \in 1..Len(gs.Enemies) :
         LET e == gs.Enemies[i]
         IN  /\ IsAlive(e)
             /\ e = NewBug(e.X, e.Y) \/ e = NewScopeCreep(e.X, e.Y)
    /\ Len(gs.Potions) \in {2 + gs.Level, 3 + gs.Level}
    /\ \A i \in 1..Len(gs.Potions) : gs.Potions[i].Type = EntityPotion

\* The last level of a dungeon of several rooms, with enemies of both kinds
\* and the larger number of potions.
C22_Witness ==
  /\ Generated(gs) /\ gs.Level = MaxLevel /\ op.name = "generateLevel"
  /\ Len(gs.Dungeon.Rooms) > 1
  /\ \E i, j \in 1..Len(gs.Enemies) :
       gs.Enemies[i].Type = EntityBug /\ gs.Enemies[j].Type = EntityScopeCreep
  /\ Len(gs.Potions) = 3 + gs.Level

\* The tile (x, y) is walkable and none of the player's tile, the door and
\* the trap.
FreeTile(g, x, y) ==
  /\ IsWalkable(g.Dungeon, x, y)
  /\ <<x, y>> # <<g.Player.X, g.Player.Y>>
  /\ <<x, y>> # <<g.DoorX, g.DoorY>>
  /\ <<x, y>> # <<g.MergeConflictX, g.MergeConflictY>>

\* C23: every enemy and every potion of a newly generated level lies on a
\* walkable tile that is none of the player's tile, the door and the trap.
C23_SpawnPlacement ==
  Generated(gs) =>
    /\ \A i \in 1..Len(gs.Enemies) : FreeTile(gs, gs.Enemies[i].X, gs.Enemies[i].Y)
    /\ \A i \in 1..Len(gs.Potions) : FreeTile(gs, gs.Potions[i].X, gs.Potions[i].Y)

IsLeaf(n) == n.Left = Nil /\ n.Right = Nil

RECURSIVE Leaves(_)
Leaves(n) == IF IsLeaf(n) THEN 1 ELSE Leaves(n.Left) + Leaves(n.Right)

\* The two children tile the node n, cut on one axis at an offset between
\* MinRoomSize and the extent less MinRoomSize, the extent being more than
\* twice MinRoomSize.
CutInTwo(n) ==
  LET l == n.Left
      r == n.Right
  IN  \/ /\ n.W > 2 * MinRoomSize
         /\ l.W >= MinRoomSize /\ l.W <= n.W - MinRoomSize
         /\ <<l.X, l.Y, l.H>> = <<n.X, n.Y, n.H>>
         /\ <<r.X, r.Y, r.W, r.H>> = <<n.X + l.W, n.Y, n.W - l.W, n.H>>
      \/ /\ n.H > 2 * MinRoomSize
         /\ l.H >= MinRoomSize /\ l.H <= n.H - MinRoomSize
         /\ <<l.X, l.Y, l.W>> = <<n.X, n.Y, n.W>>
         /\ <<r.X, r.Y, r.W, r.H>> = <<n.X, n.Y + l.H, n.W, n.H - l.H>>

\* The tree below n is a partition, depth levels of splitting being left:
\* a node is a leaf or has two children that tile it, and a leaf that could
\* still have been split is too short on an axis Split may choose for it.
RECURSIVE Partitioned(_, _)
Partitioned(n, depth) ==
  IF IsLeaf(n)
  THEN depth > 0 =>
         \/ 4 * n.H < 5 * n.W /\ n.W <= 2 * MinRoomSize
         \/ 4 * n.W < 5 * n.H /\ n.H <= 2 * MinRoomSize
  ELSE /\ depth > 0
       /\ n.Left # Nil /\ n.Right # Nil
       /\ CutInTwo(n)
       /\ n.Left.W >= MinRoomSize /\ n.Left.H >= MinRoomSize
       /\ n.Right.W >= MinRoomSize /\ n.Right.H >= MinRoomSize
       /\ Partitioned(n.Left, depth - 1)
       /\ Partitioned(n.Right, depth - 1)

\* C30: after Split with depth 4 the two children of every inner node tile
\* it exactly, cut on one axis at an offset within [MinRoomSize, extent -
\* MinRoomSize], so that each child is at least MinRoomSize long on that
\* axis; a node of extent at most 2*MinRoomSize on the chosen axis is left
\* whole; and the tree has at most 16 leaves.
C30_BSPPartition ==
  op.name = "Split" =>
    /\ Partitioned(gs.node, BSPDepth)
    /\ Leaves(gs.node) <= 2 ^ BSPDepth
    /\ <<gs.node.X, gs.node.Y, gs.node.W, gs.node.H>> = <<0, 0, op.x, op.y>>

\* A tree split down to the last level in some branches, with a node left
\* whole above it in another.
C30_Witness ==
  /\ op.name = "Split"
  /\ Leaves(gs.node) >= 12 /\ Leaves(gs.node) < 2 ^ BSPDepth

\* The room of every leaf below n lies in the leaf with a margin of one
\* tile on each side and is MinRoomSize to MaxRoomSize wide and high; a
\* leaf less than MinRoomSize + 2 wide or high has no room, and neither has
\* an inner node.
RECURSIVE RoomsPlaced(_)
RoomsPlaced(n) ==
  IF ~IsLeaf(n)
  THEN n.Room = Nil /\ RoomsPlaced(n.Left) /\ RoomsPlaced(n.Right)
  ELSE IF n.W < MinRoomSize + 2 \/ n.H < MinRoomSize + 2 THEN n.Room = Nil
  ELSE /\ n.Room # Nil
       /\ n.Room.W >= MinRoomSize /\ n.Room.W <= MaxRoomSize
       /\ n.Room.H >= MinRoomSize /\ n.Room.H <= MaxRoomSize
       /\ n.Room.X >= n.X + 1 /\ n.Room.X + n.Room.W <= n.X + n.W - 1
       /\ n.Room.Y >= n.Y + 1 /\ n.Room.Y + n.Room.H <= n.Y + n.H - 1

\* The rooms a and b neither overlap nor touch: a line of tiles lies
\* between them.
Apart(a, b) ==
  \/ a.X + a.W < b.X \/ b.X + b.W < a.X
  \/ a.Y + a.H < b.Y \/ b.Y + b.H < a.Y

\* C31: every room is 6 to 15 wide and high and lies in its own leaf with a
\* margin of one tile on all four sides, so that no two rooms overlap or
\* touch and no room touches the border of the grid; a leaf less than 8
\* wide or high gets no room; and every tile of every room is walkable.
C31_RoomPlacement ==
  /\ op.name \in {"CreateRooms", "GenerateDungeon"} =>
       LET rooms == GetRooms(gs.node)
       IN  /\ RoomsPlaced(gs.node)
           /\ \A i, j \in 1..Len(rooms) : i # j => Apart(rooms[i], rooms[j])
           /\ \A i \in 1..Len(rooms) :
                /\ rooms[i].X >= 1 /\ rooms[i].X + rooms[i].W <= op.x - 1
                /\ rooms[i].Y >= 1 /\ rooms[i].Y + rooms[i].H <= op.y - 1
  /\ op.name = "GenerateDungeon" =>
       /\ gs.d.Rooms = GetRooms(gs.node)
       /\ \A i \in 1..Len(gs.d.Rooms) :
            \A x \in gs.d.Rooms[i].X .. (gs.d.Rooms[i].X + gs.d.Rooms[i].W - 1) :
              \A y \in gs.d.Rooms[i].Y .. (gs.d.Rooms[i].Y + gs.d.Rooms[i].H - 1) :
                IsWalkable(gs.d, x, y)

\* A dungeon of eight rooms or more whose tree has leaves without a room.
C31_Witness ==
  /\ op.name = "GenerateDungeon"
  /\ Len(gs.d.Rooms) >= 8
  /\ Len(gs.d.Rooms) < Leaves(gs.node)

\* The tiles on the outer border of the grid.
Border(d) ==
  {c \in (0..(d.Width - 1)) \X (0..(d.Height - 1)) :
     c[1] = 0 \/ c[1] = d.Width - 1 \/ c[2] = 0 \/ c[2] = d.Height - 1}

\* C37: all tiles on the outer border of a generated dungeon are Wall, and
\* neither the player nor an enemy ever stands on a border tile.
C37_BorderIsWall ==
  (gs.Dungeon # Nil /\ gs.Panic = NoPanic) =>
    /\ \A c \in Border(gs.Dungeon) : TileAt(gs.Dungeon, c[1], c[2]) = TileWall
    /\ gs.Player # Nil => <<gs.Player.X, gs.Player.Y>> \notin Border(gs.Dungeon)
    /\ \A i \in 1..Len(gs.Enemies) :
         <<gs.Enemies[i].X, gs.Enemies[i].Y>> \notin Border(gs.Dungeon)

\* C40: randomFloorTile makes at most MaxAttempts attempts and always
\* returns: a tile of a room that is walkable and is not the player's, the
\* door's or the trap's, or, after MaxAttempts refused attempts or in a
\* dungeon without rooms, the grid centre; and that is the tile and the
\* generator generateLevel goes on with.
C40_SpawnTerminates ==
  /\ [](/\ gs.attempts <= MaxAttempts
        /\ gs.returned =>
             /\ randomFloorTile(gs.g) = [x |-> gs.x, y |-> gs.y, rng |-> gs.rng]
        /\ gs.returned =>
             \/ /\ gs.attempts < MaxAttempts
                /\ \E i \in 1..Len(gs.g.Dungeon.Rooms) :
                     Contains(gs.g.Dungeon.Rooms[i], gs.x, gs.y)
                /\ IsWalkable(gs.g.Dungeon, gs.x, gs.y)
                /\ gs.g.Player # Nil => <<gs.x, gs.y>> # <<gs.g.Player.X, gs.g.Player.Y>>
                /\ <<gs.x, gs.y>> # <<gs.g.DoorX, gs.g.DoorY>>
                /\ <<gs.x, gs.y>> # <<gs.g.MergeConflictX, gs.g.MergeConflictY>>
             \/ /\ gs.attempts = MaxAttempts \/ Len(gs.g.Dungeon.Rooms) = 0
                /\ gs.x = gs.g.Dungeon.Width \div 2
                /\ gs.y = gs.g.Dungeon.Height \div 2)
  /\ <>gs.returned

\* The grid centre has been returned after MaxAttempts refused attempts.
C40_Witness ==
  /\ gs.returned
  /\ gs.attempts = MaxAttempts
  /\ Len(gs.g.Dungeon.Rooms) > 0

====
